---- MODULE Spec2Model ----
(***************************************************************************)
(* Tempesta TLS: elliptic curves over GF(p), generic functions (ecp.c).    *)
(*                                                                         *)
(* The field and the group are scaled down: the groups below are curves   *)
(* y^2 = x^3 - 3x + b over an 8-bit and a 10-bit prime, with prime order N *)
(* below p, as secp256r1 and secp384r1 are over their primes.  The code is *)
(* generic in grp->bits, grp->P, grp->N, so every function below is the    *)
(* code's function evaluated on these parameters.                          *)
(*                                                                         *)
(* A TlsMpi is modelled by its integer value; a TlsMpi without limbs       *)
(* ("empty", ttls_mpi_empty()) is the value EMPTY.  A point is a record    *)
(* [X, Y, Z] of such values.  Every function returns a record holding the  *)
(* return code, the written outputs and tr, the sequence of ModArith calls *)
(* ("M" for ecp_mul_mod, "S" for ecp_sqr_mod) it made.                     *)
(***************************************************************************)
EXTENDS Integers, Sequences, FiniteSets, TLC

\* ------------------------------------------------------------------------
\* Return codes
\* ------------------------------------------------------------------------
EINVAL == 22
ENOSPC == 28
ENOMEM == 12
TTLS_ERR_ECP_BAD_INPUT_DATA == -20352
TTLS_ERR_ECP_FEATURE_UNAVAILABLE == -20096
TTLS_ERR_ECP_RANDOM_FAILED == -19712
TTLS_ERR_MPI_NOT_ACCEPTABLE == -14

\* ------------------------------------------------------------------------
\* Mpi service (bignum.c): value semantics
\* ------------------------------------------------------------------------
\* A TlsMpi with no limbs.
EMPTY == -1

ttls_mpi_empty(X) == X = EMPTY

\* The integer an MPI holds; an MPI without limbs holds 0.
mpi_v(X) == IF X = EMPTY THEN 0 ELSE X

ttls_mpi_cmp_int(X, z) ==
    IF mpi_v(X) < z THEN -1 ELSE IF mpi_v(X) > z THEN 1 ELSE 0

ttls_mpi_cmp_mpi(X, Y) ==
    IF mpi_v(X) < mpi_v(Y) THEN -1 ELSE IF mpi_v(X) > mpi_v(Y) THEN 1 ELSE 0

RECURSIVE ttls_mpi_bitlen(_)
ttls_mpi_bitlen(X) == IF X <= 0 THEN 0 ELSE 1 + ttls_mpi_bitlen(X \div 2)

RECURSIVE Pow2(_)
Pow2(n) == IF n = 0 THEN 1 ELSE 2 * Pow2(n - 1)

ttls_mpi_get_bit(X, pos) == (X \div Pow2(pos)) % 2

ttls_mpi_set_bit(X, pos, val) ==
    X - ttls_mpi_get_bit(X, pos) * Pow2(pos) + val * Pow2(pos)

ttls_mpi_shift_r(X, n) == X \div Pow2(n)

\* Size of the value in bytes.
ttls_mpi_size(X) == (ttls_mpi_bitlen(X) + 7) \div 8

\* Extended Euclid: a record [g, x] with g = gcd(a, b) and a*x = g (mod b).
RECURSIVE egcd(_, _)
egcd(a, b) ==
    IF b = 0 THEN [g |-> a, x |-> 1, y |-> 0]
    ELSE LET r == egcd(b, a % b)
         IN  [g |-> r.g, x |-> r.y, y |-> r.x - (a \div b) * r.y]

\* X = A^-1 mod N; fails when A has no inverse.
ttls_mpi_inv_mod(A, N) ==
    LET e == egcd(mpi_v(A) % N, N)
    IN  IF e.g # 1 THEN [ret |-> TTLS_ERR_MPI_NOT_ACCEPTABLE, X |-> 0]
        ELSE [ret |-> 0, X |-> e.x % N]

\* ------------------------------------------------------------------------
\* Bytes
\* ------------------------------------------------------------------------
\* Big-endian export of X into exactly len bytes; fails if X does not fit.
RECURSIVE be_bytes(_, _)
be_bytes(X, len) ==
    IF len = 0 THEN <<>> ELSE Append(be_bytes(X \div 256, len - 1), X % 256)

ttls_mpi_write_binary(X, len) ==
    IF ttls_mpi_size(mpi_v(X)) > len THEN [ret |-> -ENOSPC, buf |-> <<>>]
    ELSE [ret |-> 0, buf |-> be_bytes(mpi_v(X), len)]

\* Big-endian import of a byte string.
RECURSIVE ttls_mpi_read_binary(_)
ttls_mpi_read_binary(b) ==
    IF Len(b) = 0 THEN 0
    ELSE 256 * ttls_mpi_read_binary(SubSeq(b, 1, Len(b) - 1)) + b[Len(b)]

\* ------------------------------------------------------------------------
\* ModArith
\* ------------------------------------------------------------------------
MOD_SUB(grp, N) == IF N < 0 THEN N % grp.P ELSE N

\* A reduction after an addition that subtracts p once.
MOD_ADD_once(grp, N) == IF N >= grp.P THEN N - grp.P ELSE N

MOD_ADD(grp, N) == IF N >= grp.P THEN N % grp.P ELSE N

ecp_modp(grp, N) == N % grp.P

ecp_mul_mod(grp, A, B) == ecp_modp(grp, mpi_v(A) * mpi_v(B))

ecp_sqr_mod(grp, A) == ecp_modp(grp, mpi_v(A) * mpi_v(A))

\* ------------------------------------------------------------------------
\* Points
\* ------------------------------------------------------------------------
Pt(x, y, z) == [X |-> x, Y |-> y, Z |-> z]

ttls_ecp_point_init == Pt(EMPTY, EMPTY, EMPTY)

\* A point "at infinity" that is affine.
ttls_ecp_set_zero_affine == Pt(1, 1, 1)

ttls_ecp_set_zero == Pt(1, 1, 0)

ttls_ecp_is_zero(pt) == ttls_mpi_cmp_int(pt.Z, 0) = 0

ECP_TYPE_SHORT_WEIERSTRASS == 0
ECP_TYPE_MONTGOMERY == 1

ecp_get_type(grp) ==
    IF ttls_mpi_empty(grp.G.Y) THEN ECP_TYPE_MONTGOMERY
    ELSE ECP_TYPE_SHORT_WEIERSTRASS

\* ------------------------------------------------------------------------
\* JacPoint: short Weierstrass curves, Jacobian coordinates
\* ------------------------------------------------------------------------

\* Normalize jacobian coordinates so that Z == 0 || Z == 1.
ecp_normalize_jac(grp, pt) ==
    IF ttls_mpi_cmp_int(pt.Z, 0) = 0 THEN [ret |-> 0, pt |-> pt, tr |-> <<>>]
    ELSE
      LET inv == ttls_mpi_inv_mod(pt.Z, grp.P)
          Zi  == inv.X
          ZZi == ecp_sqr_mod(grp, Zi)
          X1  == ecp_mul_mod(grp, pt.X, ZZi)
          Y1  == ecp_mul_mod(grp, pt.Y, ZZi)
          Y2  == ecp_mul_mod(grp, Y1, Zi)
      IN  IF inv.ret # 0 THEN [ret |-> inv.ret, pt |-> pt, tr |-> <<>>]
          ELSE [ret |-> 0, pt |-> Pt(X1, Y2, 1), tr |-> <<"S", "M", "M", "M">>]

\* Prefix products that hold Z_i alone from the second entry on.
RECURSIVE nm_prefix_last(_, _, _, _)
nm_prefix_last(grp, T, TT, i) ==
    IF i = 1 THEN <<mpi_v(T[TT[1]].Z)>>
    ELSE LET c == nm_prefix_last(grp, T, TT, i - 1)
         IN  Append(c, mpi_v(T[TT[i]].Z))

\* c[i] = Z_0 * ... * Z_i, for the points T[TT[1]], ..., T[TT[t_len]].
RECURSIVE nm_prefix(_, _, _, _)
nm_prefix(grp, T, TT, i) ==
    IF i = 1 THEN <<mpi_v(T[TT[1]].Z)>>
    ELSE LET c == nm_prefix(grp, T, TT, i - 1)
         IN  Append(c, ecp_mul_mod(grp, c[i - 1], T[TT[i]].Z))

\* The second loop of ecp_normalize_jac_many(), from entry i down to 1.
RECURSIVE nm_loop(_, _, _, _, _, _)
nm_loop(grp, T, TT, c, u, i) ==
    IF i = 0 THEN [T |-> T, tr |-> <<>>]
    ELSE
      LET Zi  == IF i = 1 THEN u ELSE ecp_mul_mod(grp, u, c[i - 1])
          u1  == IF i = 1 THEN u ELSE ecp_mul_mod(grp, u, T[TT[i]].Z)
          ZZi == ecp_sqr_mod(grp, Zi)
          X1  == ecp_mul_mod(grp, T[TT[i]].X, ZZi)
          Y1  == ecp_mul_mod(grp, T[TT[i]].Y, ZZi)
          Y2  == ecp_mul_mod(grp, Y1, Zi)
          T1  == [T EXCEPT ![TT[i]] = Pt(X1, Y2, EMPTY)]
          r   == nm_loop(grp, T1, TT, c, u1, i - 1)
      IN  [T |-> r.T,
           tr |-> (IF i = 1 THEN <<>> ELSE <<"M", "M">>)
                  \o <<"S", "M", "M", "M">> \o r.tr]

\* Normalize the points T[TT[1..t_len]] with a single inversion.
\* TT is the array of pointers into T.
ecp_normalize_jac_many(grp, T, TT) ==
    LET t_len == Len(TT)
        c     == nm_prefix(grp, T, TT, t_len)
        inv   == ttls_mpi_inv_mod(c[t_len], grp.P)
        ctr   == [i \in 1..(t_len - 1) |-> "M"]
        r     == nm_loop(grp, T, TT, c, inv.X, t_len)
    IN  IF inv.ret # 0 THEN [ret |-> inv.ret, T |-> T, tr |-> ctr]
        ELSE [ret |-> 0, T |-> r.T, tr |-> ctr \o r.tr]

\* A conditional point inversion that never inverts.
ecp_safe_invert_jac_never(grp, Q, inv) == Q

\* Conditional point inversion: Q -> -Q = (Q.X, -Q.Y, Q.Z).
ecp_safe_invert_jac(grp, Q, inv) ==
    LET mQY     == grp.P - mpi_v(Q.Y)
        nonzero == IF ttls_mpi_cmp_int(Q.Y, 0) # 0 THEN 1 ELSE 0
    IN  IF inv = 1 /\ nonzero = 1 THEN [Q EXCEPT !.Y = mQY] ELSE Q

\* Point doubling R = 2 P, Jacobian coordinates.
ecp_double_jac(grp, P) ==
    LET z1 == ttls_mpi_cmp_int(P.Z, 1) = 0
        a3 == ttls_mpi_empty(grp.A)
        \* NIST curves case: A = -3, M = 3(X + Z^2)(X - Z^2)
        Sa == IF z1 THEN 1 ELSE ecp_sqr_mod(grp, P.Z)
        Ta == MOD_ADD(grp, mpi_v(P.X) + Sa)
        Ua == MOD_SUB(grp, mpi_v(P.X) - Sa)
        Sb == ecp_mul_mod(grp, Ta, Ua)
        \* otherwise M = 3 * X^2
        Sc == ecp_sqr_mod(grp, P.X)
        S0 == IF a3 THEN Sb ELSE Sc
        M  == MOD_ADD(grp, 2 * S0 + S0)
        \* S = 4 * X * Y^2
        T1 == MOD_ADD(grp, 2 * ecp_sqr_mod(grp, P.Y))
        S1 == MOD_ADD(grp, 2 * ecp_mul_mod(grp, P.X, T1))
        \* U = 8.Y^4
        U1 == MOD_ADD(grp, 2 * ecp_sqr_mod(grp, T1))
        \* T = M^2 - 2 * S
        T2 == MOD_SUB(grp, ecp_sqr_mod(grp, M) - S1)
        T3 == MOD_SUB(grp, T2 - S1)
        \* S = M(S - T) - U
        S2 == MOD_SUB(grp, S1 - T3)
        S3 == ecp_mul_mod(grp, S2, M)
        S4 == MOD_SUB(grp, S3 - U1)
        \* U = 2 * Y * Z
        U2 == IF z1 THEN mpi_v(P.Y) ELSE ecp_mul_mod(grp, P.Y, P.Z)
        U3 == MOD_ADD(grp, 2 * U2)
    IN  [ret |-> 0, R |-> Pt(T3, S4, U3),
         tr |-> (IF a3 THEN (IF z1 THEN <<"M">> ELSE <<"S", "M">>)
                 ELSE <<"S">>)
                \o <<"S", "M", "S", "S", "M">>
                \o (IF z1 THEN <<>> ELSE <<"M">>),
         \* the values left by the reduction steps, in program order
         vals |-> (IF a3 THEN <<Sa, Ta, Ua>> ELSE <<>>)
                  \o <<S0, M, T1, S1, U1, T2, T3, S2, S3, S4, U2, U3>>]

\* An addition that takes P == Q for P == -Q.
ecp_add_mixed_nodbl(grp, R0, P, Q) ==
    LET pz1 == ttls_mpi_cmp_int(P.Z, 1) = 0
        zz  == ecp_sqr_mod(grp, P.Z)
        zzz == ecp_mul_mod(grp, zz, P.Z)
        T1  == IF pz1 THEN MOD_SUB(grp, mpi_v(Q.X) - mpi_v(P.X))
               ELSE MOD_SUB(grp, ecp_mul_mod(grp, zz, Q.X) - mpi_v(P.X))
        T2  == IF pz1 THEN MOD_SUB(grp, mpi_v(Q.Y) - mpi_v(P.Y))
               ELSE MOD_SUB(grp, ecp_mul_mod(grp, zzz, Q.Y) - mpi_v(P.Y))
        tr1 == IF pz1 THEN <<>> ELSE <<"S", "M", "M", "M">>
        Z   == IF pz1 THEN T1 ELSE ecp_mul_mod(grp, P.Z, T1)
        T3a == ecp_sqr_mod(grp, T1)
        T4a == ecp_mul_mod(grp, T3a, T1)
        T3b == ecp_mul_mod(grp, T3a, P.X)
        T1b == MOD_ADD(grp, 2 * T3b)
        X1  == MOD_SUB(grp, ecp_sqr_mod(grp, T2) - T1b)
        X   == MOD_SUB(grp, X1 - T4a)
        T3c == MOD_SUB(grp, T3b - X)
        T3d == ecp_mul_mod(grp, T3c, T2)
        T4b == ecp_mul_mod(grp, T4a, P.Y)
        Y   == MOD_SUB(grp, T3d - T4b)
    IN  \* Trivial cases: P == 0 or Q == 0 (case 1).
        IF ttls_mpi_cmp_int(P.Z, 0) = 0
        THEN [ret |-> 0, R |-> Q, tr |-> <<>>, case |-> "P0"]
        ELSE IF ~ttls_mpi_empty(Q.Z) /\ ttls_mpi_cmp_int(Q.Z, 0) = 0
        THEN [ret |-> 0, R |-> P, tr |-> <<>>, case |-> "Q0"]
        \* Make sure Q coordinates are normalized.
        ELSE IF ~ttls_mpi_empty(Q.Z) /\ ttls_mpi_cmp_int(Q.Z, 1) # 0
        THEN [ret |-> -EINVAL, R |-> R0, tr |-> <<>>, case |-> "inval"]
        \* Special cases (2) and (3)
        ELSE IF ttls_mpi_cmp_int(T1, 0) = 0
        THEN [ret |-> 0, R |-> ttls_ecp_set_zero, tr |-> tr1,
              case |-> "zero"]
        ELSE [ret |-> 0, R |-> Pt(X, Y, Z),
              tr |-> tr1 \o (IF pz1 THEN <<>> ELSE <<"M">>)
                     \o <<"S", "M", "M", "S", "M", "M">>,
              case |-> "add"]

\* Addition: R = P + Q, mixed affine-Jacobian coordinates.
\* R0 is the content of R before the call.
ecp_add_mixed(grp, R0, P, Q) ==
    LET pz1 == ttls_mpi_cmp_int(P.Z, 1) = 0
        zz  == ecp_sqr_mod(grp, P.Z)
        zzz == ecp_mul_mod(grp, zz, P.Z)
        T1  == IF pz1 THEN MOD_SUB(grp, mpi_v(Q.X) - mpi_v(P.X))
               ELSE MOD_SUB(grp, ecp_mul_mod(grp, zz, Q.X) - mpi_v(P.X))
        T2  == IF pz1 THEN MOD_SUB(grp, mpi_v(Q.Y) - mpi_v(P.Y))
               ELSE MOD_SUB(grp, ecp_mul_mod(grp, zzz, Q.Y) - mpi_v(P.Y))
        tr1 == IF pz1 THEN <<>> ELSE <<"S", "M", "M", "M">>
        Z   == IF pz1 THEN T1 ELSE ecp_mul_mod(grp, P.Z, T1)
        T3a == ecp_sqr_mod(grp, T1)
        T4a == ecp_mul_mod(grp, T3a, T1)
        T3b == ecp_mul_mod(grp, T3a, P.X)
        T1b == MOD_ADD(grp, 2 * T3b)
        X1  == MOD_SUB(grp, ecp_sqr_mod(grp, T2) - T1b)
        X   == MOD_SUB(grp, X1 - T4a)
        T3c == MOD_SUB(grp, T3b - X)
        T3d == ecp_mul_mod(grp, T3c, T2)
        T4b == ecp_mul_mod(grp, T4a, P.Y)
        Y   == MOD_SUB(grp, T3d - T4b)
        dbl(r) == [ret |-> r.ret, R |-> r.R, tr |-> tr1 \o r.tr,
                   case |-> "dbl", vals |-> <<T1, T2>> \o r.vals]
    IN  \* Trivial cases: P == 0 or Q == 0 (case 1).
        IF ttls_mpi_cmp_int(P.Z, 0) = 0
        THEN [ret |-> 0, R |-> Q, tr |-> <<>>, case |-> "P0", vals |-> <<>>]
        ELSE IF ~ttls_mpi_empty(Q.Z) /\ ttls_mpi_cmp_int(Q.Z, 0) = 0
        THEN [ret |-> 0, R |-> P, tr |-> <<>>, case |-> "Q0", vals |-> <<>>]
        \* Make sure Q coordinates are normalized.
        ELSE IF ~ttls_mpi_empty(Q.Z) /\ ttls_mpi_cmp_int(Q.Z, 1) # 0
        THEN [ret |-> -EINVAL, R |-> R0, tr |-> <<>>, case |-> "inval",
              vals |-> <<>>]
        \* Special cases (2) and (3)
        ELSE IF ttls_mpi_cmp_int(T1, 0) = 0
        THEN IF ttls_mpi_cmp_int(T2, 0) = 0
             THEN dbl(ecp_double_jac(grp, P))
             ELSE [ret |-> 0, R |-> ttls_ecp_set_zero, tr |-> tr1,
                   case |-> "zero", vals |-> <<T1, T2>>]
        ELSE [ret |-> 0, R |-> Pt(X, Y, Z),
              tr |-> tr1 \o (IF pz1 THEN <<>> ELSE <<"M">>)
                     \o <<"S", "M", "M", "S", "M", "M">>,
              case |-> "add",
              \* the values left by the reduction steps, in program order
              vals |-> <<T1, T2, Z, T3a, T4a, T3b, T1b, X1, X, T3c, T3d, T4b,
                         Y>>]

\* The CRNG output reduced below p by right shifts.
RECURSIVE rnd_reduce(_, _)
rnd_reduce(grp, l) ==
    IF ttls_mpi_cmp_mpi(l, grp.P) >= 0
    THEN rnd_reduce(grp, ttls_mpi_shift_r(l, 1)) ELSE l

\* The loop "generate l such that 1 < l < p" of ecp_randomize_jac() and
\* ecp_randomize_mxz(); rng is the sequence of values that successive
\* ttls_mpi_fill_random() calls return, count the loop counter.
RECURSIVE ecp_randomize_l(_, _, _)
ecp_randomize_l(grp, rng, count) ==
    LET l == rnd_reduce(grp, Head(rng))
    IN  IF count > 10
        THEN [ret |-> TTLS_ERR_ECP_RANDOM_FAILED, l |-> l, draws |-> count + 1]
        ELSE IF ttls_mpi_cmp_int(l, 1) <= 0
        THEN ecp_randomize_l(grp, Tail(rng), count + 1)
        ELSE [ret |-> 0, l |-> l, draws |-> count + 1]

\* A randomisation that scales Y by l^2 instead of l^3.
ecp_randomize_jac_sq(grp, pt, rng) ==
    LET g   == ecp_randomize_l(grp, rng, 0)
        l   == g.l
        z1  == ttls_mpi_cmp_int(pt.Z, 1) = 0
        Z   == IF z1 THEN l ELSE ecp_mul_mod(grp, pt.Z, l)
        ll  == ecp_sqr_mod(grp, l)
        X   == ecp_mul_mod(grp, pt.X, ll)
        Y   == ecp_mul_mod(grp, pt.Y, ll)
    IN  IF g.ret # 0
        THEN [ret |-> g.ret, pt |-> pt, tr |-> <<>>, draws |-> g.draws]
        ELSE [ret |-> 0, pt |-> Pt(X, Y, Z),
              tr |-> (IF z1 THEN <<>> ELSE <<"M">>) \o <<"S", "M", "M", "M">>,
              draws |-> g.draws]

\* Randomize jacobian coordinates: (X, Y, Z) -> (l^2 X, l^3 Y, l Z).
ecp_randomize_jac(grp, pt, rng) ==
    LET g   == ecp_randomize_l(grp, rng, 0)
        l   == g.l
        z1  == ttls_mpi_cmp_int(pt.Z, 1) = 0
        Z   == IF z1 THEN l ELSE ecp_mul_mod(grp, pt.Z, l)
        ll  == ecp_sqr_mod(grp, l)
        X   == ecp_mul_mod(grp, pt.X, ll)
        lll == ecp_mul_mod(grp, ll, l)
        Y   == ecp_mul_mod(grp, pt.Y, lll)
    IN  IF g.ret # 0
        THEN [ret |-> g.ret, pt |-> pt, tr |-> <<>>, draws |-> g.draws]
        ELSE [ret |-> 0, pt |-> Pt(X, Y, Z),
              tr |-> (IF z1 THEN <<>> ELSE <<"M">>) \o <<"S", "M", "M", "M">>,
              draws |-> g.draws]

\* ------------------------------------------------------------------------
\* CombTable / CombMul
\* ------------------------------------------------------------------------
TTLS_ECP_WINDOW_ORDER == 7
TTLS_ECP_WINDOW_SIZE == Pow2(TTLS_ECP_WINDOW_ORDER - 1)

\* Bitwise operators of C on unsigned char.
RECURSIVE BitAnd(_, _)
BitAnd(a, b) ==
    IF a = 0 \/ b = 0 THEN 0
    ELSE (a % 2) * (b % 2) + 2 * BitAnd(a \div 2, b \div 2)

RECURSIVE BitXor(_, _)
BitXor(a, b) ==
    IF a = 0 THEN b ELSE IF b = 0 THEN a
    ELSE ((a + b) % 2) + 2 * BitXor(a \div 2, b \div 2)

BitOr(a, b) == a + b - BitAnd(a, b)

\* The classical comb value x[i] = sum_j bit(m, i + d*j) << j, for j < w.
RECURSIVE cf_classic(_, _, _, _)
cf_classic(m, d, i, w) ==
    IF w = 0 THEN 0
    ELSE BitOr(cf_classic(m, d, i, w - 1),
               ttls_mpi_get_bit(m, i + d * (w - 1)) * Pow2(w - 1))

\* The loop of cf_odd() that forgets the carry of the adjustment.
RECURSIVE cf_odd_nocarry(_, _, _, _)
cf_odd_nocarry(x, d, c, i) ==
    IF i > d THEN x
    ELSE
      LET cc     == BitAnd(x[i], c)
          xi1    == BitXor(x[i], c)
          adjust == 1 - BitAnd(xi1, 1)
          xi2    == BitXor(xi1, x[i - 1] * adjust)
          xp     == BitOr(x[i - 1], adjust * 128)
      IN  cf_odd_nocarry([x EXCEPT ![i] = xi2, ![i - 1] = xp], d, cc, i + 1)

\* The loop "make sure x_1 .. x_d are odd" from index i on, with carry c.
RECURSIVE cf_odd(_, _, _, _)
cf_odd(x, d, c, i) ==
    IF i > d THEN x
    ELSE
      LET cc     == BitAnd(x[i], c)
          xi1    == BitXor(x[i], c)
          adjust == 1 - BitAnd(xi1, 1)
          c2     == BitOr(cc, BitAnd(xi1, x[i - 1] * adjust))
          xi2    == BitXor(xi1, x[i - 1] * adjust)
          xp     == BitOr(x[i - 1], adjust * 128)
      IN  cf_odd([x EXCEPT ![i] = xi2, ![i - 1] = xp], d, c2, i + 1)

\* The classical comb values alone, x[d] = 0.
ecp_comb_fixed_classic(d, w, m) ==
    [i \in 0..d |-> IF i < d THEN cf_classic(m, d, i, w) ELSE 0]

\* Compute the representation of m that is used with the comb method:
\* x[0..d], the low 7 bits of x[i] the digit, bit 7 its sign.
ecp_comb_fixed(d, w, m) ==
    cf_odd([i \in 0..d |-> IF i < d THEN cf_classic(m, d, i, w) ELSE 0],
           d, 0, 1)

\* j doublings of the point acc.R; acc.tr collects the ModArith calls.
RECURSIVE pc_dbl(_, _, _)
pc_dbl(grp, acc, j) ==
    IF j = 0 THEN acc
    ELSE LET next(r) == [R |-> r.R, tr |-> acc.tr \o r.tr]
         IN  pc_dbl(grp, next(ecp_double_jac(grp, acc.R)), j - 1)

\* First loop of ecp_precompute_comb(): T[2^{k}] = 2^d T[2^{k-1}], from i on.
\* st holds the table T, the pointers TT collected so far and the trace.
RECURSIVE pc_pow(_, _, _, _, _)
pc_pow(grp, st, i, w, d) ==
    IF i >= Pow2(w - 1) THEN st
    ELSE LET set(r) == [ret |-> 0, T |-> [st.T EXCEPT ![i] = r.R],
                        TT |-> Append(st.TT, i), tr |-> st.tr \o r.tr]
         IN  pc_pow(grp,
                    set(pc_dbl(grp, [R |-> st.T[i \div 2], tr |-> <<>>], d)),
                    2 * i, w, d)

\* A second loop that counts j up, updating T[i] before its last use.
RECURSIVE pc_add_up(_, _, _, _, _)
pc_add_up(grp, st, i, j, w) ==
    IF st.ret # 0 \/ i >= Pow2(w - 1) THEN st
    ELSE IF j >= i THEN pc_add_up(grp, st, 2 * i, 0, w)
    ELSE LET set(r) ==
               IF r.ret # 0
               THEN [st EXCEPT !.ret = r.ret, !.tr = st.tr \o r.tr]
               ELSE [ret |-> 0, T |-> [st.T EXCEPT ![i + j] = r.R],
                     TT |-> Append(st.TT, i + j), tr |-> st.tr \o r.tr]
         IN  pc_add_up(grp,
                       set(ecp_add_mixed(grp, st.T[i + j], st.T[j], st.T[i])),
                       i, j + 1, w)

\* Second loop of ecp_precompute_comb(): T[i + j] = T[j] + T[i] for j < i,
\* j counting down; (i, j) is the next pair, j = -1 ends the inner loop.
RECURSIVE pc_add(_, _, _, _, _)
pc_add(grp, st, i, j, w) ==
    IF st.ret # 0 \/ i >= Pow2(w - 1) THEN st
    ELSE IF j < 0 THEN pc_add(grp, st, 2 * i, 2 * i - 1, w)
    ELSE LET set(r) ==
               IF r.ret # 0
               THEN [st EXCEPT !.ret = r.ret, !.tr = st.tr \o r.tr]
               ELSE [ret |-> 0, T |-> [st.T EXCEPT ![i + j] = r.R],
                     TT |-> Append(st.TT, i + j), tr |-> st.tr \o r.tr]
         IN  pc_add(grp,
                    set(ecp_add_mixed(grp, st.T[i + j], st.T[j], st.T[i])),
                    i, j - 1, w)

\* Precompute points for the comb method; T0 is the content of T before.
ecp_precompute_comb(grp, T0, P, w, d) ==
    LET \* MPI_CHK(ecp_normalize_jac_many(grp, TT, k))
        norm(st) ==
            LET set(n) == [ret |-> n.ret, T |-> n.T, TT |-> <<>>,
                           tr |-> st.tr \o n.tr]
            IN  IF st.ret # 0 THEN st
                ELSE set(ecp_normalize_jac_many(grp, st.T, st.TT))
        st0 == [ret |-> 0, T |-> [T0 EXCEPT ![0] = P], TT |-> <<>>,
                tr |-> <<>>]
    IN  norm(pc_add(grp, norm(pc_pow(grp, st0, 1, w, d)), 1, 0, w))

\* A table scan that stops at the selected entry.
RECURSIVE sc_scan_stop(_, _, _, _, _)
sc_scan_stop(st, T, t_len, ii, j) ==
    IF j >= t_len THEN st
    ELSE IF j = ii
    THEN [R |-> [st.R EXCEPT !.X = T[j].X, !.Y = T[j].Y],
          rd |-> Append(st.rd, j)]
    ELSE sc_scan_stop([st EXCEPT !.rd = Append(st.rd, j)], T, t_len, ii,
                      j + 1)

\* The table scan of ecp_select_comb() from entry j on. st holds R and rd,
\* the indices of the table entries read so far.
RECURSIVE sc_scan(_, _, _, _, _)
sc_scan(st, T, t_len, ii, j) ==
    IF j >= t_len THEN st
    ELSE sc_scan([R |-> IF j = ii
                        THEN [st.R EXCEPT !.X = T[j].X, !.Y = T[j].Y]
                        ELSE st.R,
                  rd |-> Append(st.rd, j)],
                 T, t_len, ii, j + 1)

\* ecp_select_comb() with the table entries it read.
ecp_select_comb_rd(grp, R, T, t_len, i) ==
    LET ii == (i % 128) \div 2
        inv(st) == [R |-> ecp_safe_invert_jac(grp, st.R, i \div 128),
                    rd |-> st.rd]
    IN  inv(sc_scan([R |-> R, rd |-> <<>>], T, t_len, ii, 0))

\* Select precomputed point: R = sign(i) * T[ abs(i) / 2 ].
ecp_select_comb(grp, R, T, t_len, i) ==
    ecp_select_comb_rd(grp, R, T, t_len, i).R

\* The main loop of ecp_mul_comb_core() from digit i - 1 down to digit 0.
\* st holds R, Txi, the trace and the case each ecp_add_mixed() took.
RECURSIVE mcc_loop(_, _, _, _, _, _)
mcc_loop(grp, st, T, t_len, x, i) ==
    IF st.ret # 0 \/ i = 0 THEN st
    ELSE
      LET set(dbl, sel, add) ==
              [ret |-> add.ret, R |-> add.R, Txi |-> sel,
               tr |-> st.tr \o dbl.tr \o add.tr,
               cases |-> Append(st.cases, add.case)]
          add(dbl, sel) ==
              set(dbl, sel, ecp_add_mixed(grp, dbl.R, dbl.R, sel))
      IN  mcc_loop(grp,
                   add(ecp_double_jac(grp, st.R),
                       ecp_select_comb(grp, st.Txi, T, t_len, x[i - 1])),
                   T, t_len, x, i - 1)

\* Core multiplication algorithm for the (modified) comb method.
ecp_mul_comb_core(grp, R0, T, t_len, x, d, rnd, rng) ==
    LET R1 == [ecp_select_comb(grp, Pt(0, 0, 0), T, t_len, x[d])
                 EXCEPT !.Z = 1]
        loop(R2, tr2) ==
            mcc_loop(grp, [ret |-> 0, R |-> R2, Txi |-> Pt(0, 0, EMPTY),
                           tr |-> tr2, cases |-> <<>>], T, t_len, x, d)
        rand(rz) ==
            IF rz.ret # 0
            THEN [ret |-> rz.ret, R |-> R1, Txi |-> Pt(0, 0, EMPTY),
                  tr |-> <<>>, cases |-> <<>>]
            ELSE loop(rz.pt, rz.tr)
    IN  rand(IF rnd THEN ecp_randomize_jac(grp, R1, rng)
             ELSE [ret |-> 0, pt |-> R1, tr |-> <<>>])

\* A multiplication that builds a table of its own for G as for any other
\* base point.
ecp_mul_comb_build(grp, R0, m, P, rnd, rng, tmpT) ==
    LET w0      == IF grp.bits = 384 THEN 5 ELSE 4
        p_eq_g  == ttls_mpi_cmp_mpi(P.Y, grp.G.Y) = 0
                   /\ ttls_mpi_cmp_mpi(P.X, grp.G.X) = 0
        w       == IF p_eq_g THEN w0 + 1 ELSE w0
        pre_len == Pow2(w - 1)
        d       == (grp.bits + w - 1) \div w
        Tnew    == [i \in 0..(pre_len - 1) |-> ttls_ecp_point_init]
        m_is_odd == ttls_mpi_get_bit(m, 0) = 1
        M       == IF m_is_odd THEN m ELSE grp.N - m
        k       == ecp_comb_fixed(d, w, M)
        none    == [ret |-> -EINVAL, R |-> R0, tr |-> <<>>, cases |-> <<>>,
                    tmp |-> FALSE, freed |-> FALSE]
        \* Now get m * P from M * P and normalize it.
        norm(ptr, core) ==
            LET set(nz) ==
                    [ret |-> nz.ret, R |-> nz.pt,
                     tr |-> ptr \o core.tr \o nz.tr, cases |-> core.cases,
                     tmp |-> TRUE, freed |-> TRUE]
            IN  IF core.ret # 0
                THEN [ret |-> core.ret, R |-> core.R, tr |-> ptr \o core.tr,
                      cases |-> core.cases, tmp |-> TRUE,
                      freed |-> TRUE]
                ELSE set(ecp_normalize_jac(grp,
                           ecp_safe_invert_jac(grp, core.R,
                                               IF m_is_odd THEN 0 ELSE 1)))
        \* Compute T if it wasn't precomputed for the case, and go for comb
        \* multiplication, R = M * P.
        own(pc) ==
            IF pc.ret # 0
            THEN [ret |-> pc.ret, R |-> R0, tr |-> pc.tr, cases |-> <<>>,
                  tmp |-> TRUE, freed |-> TRUE]
            ELSE norm(pc.tr, ecp_mul_comb_core(grp, R0, pc.T, pre_len, k, d,
                                               rnd, rng))
    IN  IF ttls_mpi_get_bit(grp.N, 0) # 1 THEN none
        ELSE IF ~tmpT THEN [none EXCEPT !.ret = -ENOMEM]
        ELSE IF pre_len > TTLS_ECP_WINDOW_SIZE
        THEN [none EXCEPT !.tmp = TRUE, !.freed = TRUE]
        ELSE own(ecp_precompute_comb(grp, Tnew, P, w, d))

\* A multiplication that returns at once when the precomputation fails.
ecp_mul_comb_leak(grp, R0, m, P, rnd, rng, tmpT) ==
    LET w0      == IF grp.bits = 384 THEN 5 ELSE 4
        p_eq_g  == ttls_mpi_cmp_mpi(P.Y, grp.G.Y) = 0
                   /\ ttls_mpi_cmp_mpi(P.X, grp.G.X) = 0
        w       == IF p_eq_g THEN w0 + 1 ELSE w0
        pre_len == Pow2(w - 1)
        d       == (grp.bits + w - 1) \div w
        Tnew    == [i \in 0..(pre_len - 1) |-> ttls_ecp_point_init]
        m_is_odd == ttls_mpi_get_bit(m, 0) = 1
        M       == IF m_is_odd THEN m ELSE grp.N - m
        k       == ecp_comb_fixed(d, w, M)
        none    == [ret |-> -EINVAL, R |-> R0, tr |-> <<>>, cases |-> <<>>,
                    tmp |-> FALSE, freed |-> FALSE]
        \* Now get m * P from M * P and normalize it.
        norm(ptr, core) ==
            LET set(nz) ==
                    [ret |-> nz.ret, R |-> nz.pt,
                     tr |-> ptr \o core.tr \o nz.tr, cases |-> core.cases,
                     tmp |-> ~p_eq_g, freed |-> ~p_eq_g]
            IN  IF core.ret # 0
                THEN [ret |-> core.ret, R |-> core.R, tr |-> ptr \o core.tr,
                      cases |-> core.cases, tmp |-> ~p_eq_g,
                      freed |-> ~p_eq_g]
                ELSE set(ecp_normalize_jac(grp,
                           ecp_safe_invert_jac(grp, core.R,
                                               IF m_is_odd THEN 0 ELSE 1)))
        \* Compute T if it wasn't precomputed for the case, and go for comb
        \* multiplication, R = M * P.
        own(pc) ==
            IF pc.ret # 0
            THEN [ret |-> pc.ret, R |-> R0, tr |-> pc.tr, cases |-> <<>>,
                  tmp |-> TRUE, freed |-> FALSE]
            ELSE norm(pc.tr, ecp_mul_comb_core(grp, R0, pc.T, pre_len, k, d,
                                               rnd, rng))
    IN  IF ttls_mpi_get_bit(grp.N, 0) # 1 THEN none
        ELSE IF p_eq_g
                /\ (ttls_mpi_empty(grp.T[0].X) \/ ttls_mpi_empty(grp.T[0].Y))
        THEN [none EXCEPT !.ret = 1]
        ELSE IF ~p_eq_g /\ ~tmpT THEN [none EXCEPT !.ret = -ENOMEM]
        ELSE IF pre_len > TTLS_ECP_WINDOW_SIZE
        THEN [none EXCEPT !.tmp = ~p_eq_g, !.freed = ~p_eq_g]
        ELSE own(IF p_eq_g THEN [ret |-> 0, T |-> grp.T, tr |-> <<>>]
                 ELSE ecp_precompute_comb(grp, Tnew, P, w, d))

\* Multiplication using the comb method, for short Weierstrass curves.
\* tmpT: ttls_mpool_ecp_create_tmp_T() returns a table.
ecp_mul_comb(grp, R0, m, P, rnd, rng, tmpT) ==
    LET w0      == IF grp.bits = 384 THEN 5 ELSE 4
        p_eq_g  == ttls_mpi_cmp_mpi(P.Y, grp.G.Y) = 0
                   /\ ttls_mpi_cmp_mpi(P.X, grp.G.X) = 0
        w       == IF p_eq_g THEN w0 + 1 ELSE w0
        pre_len == Pow2(w - 1)
        d       == (grp.bits + w - 1) \div w
        Tnew    == [i \in 0..(pre_len - 1) |-> ttls_ecp_point_init]
        m_is_odd == ttls_mpi_get_bit(m, 0) = 1
        M       == IF m_is_odd THEN m ELSE grp.N - m
        k       == ecp_comb_fixed(d, w, M)
        none    == [ret |-> -EINVAL, R |-> R0, tr |-> <<>>, cases |-> <<>>,
                    tmp |-> FALSE, freed |-> FALSE]
        \* Now get m * P from M * P and normalize it.
        norm(ptr, core) ==
            LET set(nz) ==
                    [ret |-> nz.ret, R |-> nz.pt,
                     tr |-> ptr \o core.tr \o nz.tr, cases |-> core.cases,
                     tmp |-> ~p_eq_g, freed |-> ~p_eq_g]
            IN  IF core.ret # 0
                THEN [ret |-> core.ret, R |-> core.R, tr |-> ptr \o core.tr,
                      cases |-> core.cases, tmp |-> ~p_eq_g,
                      freed |-> ~p_eq_g]
                ELSE set(ecp_normalize_jac(grp,
                           ecp_safe_invert_jac(grp, core.R,
                                               IF m_is_odd THEN 0 ELSE 1)))
        \* Compute T if it wasn't precomputed for the case, and go for comb
        \* multiplication, R = M * P.
        own(pc) ==
            IF pc.ret # 0
            THEN [ret |-> pc.ret, R |-> R0, tr |-> pc.tr, cases |-> <<>>,
                  tmp |-> TRUE, freed |-> TRUE]
            ELSE norm(pc.tr, ecp_mul_comb_core(grp, R0, pc.T, pre_len, k, d,
                                               rnd, rng))
    IN  IF ttls_mpi_get_bit(grp.N, 0) # 1 THEN none
        ELSE IF p_eq_g
                /\ (ttls_mpi_empty(grp.T[0].X) \/ ttls_mpi_empty(grp.T[0].Y))
        THEN [none EXCEPT !.ret = 1]
        ELSE IF ~p_eq_g /\ ~tmpT THEN [none EXCEPT !.ret = -ENOMEM]
        ELSE IF pre_len > TTLS_ECP_WINDOW_SIZE
        THEN [none EXCEPT !.tmp = ~p_eq_g, !.freed = ~p_eq_g]
        ELSE own(IF p_eq_g THEN [ret |-> 0, T |-> grp.T, tr |-> <<>>]
                 ELSE ecp_precompute_comb(grp, Tnew, P, w, d))

\* ------------------------------------------------------------------------
\* MxzPoint / Ladder: Montgomery curves, x/z coordinates
\* ------------------------------------------------------------------------

\* Normalize Montgomery x/z coordinates: X = X/Z, Z = 1.
ecp_normalize_mxz(grp, P) ==
    LET inv == ttls_mpi_inv_mod(P.Z, grp.P)
    IN  IF inv.ret # 0 THEN [ret |-> inv.ret, pt |-> P, tr |-> <<>>]
        ELSE [ret |-> 0,
              pt |-> [P EXCEPT !.X = ecp_mul_mod(grp, P.X, inv.X), !.Z = 1],
              tr |-> <<"M">>]

\* Randomize projective x/z coordinates: (X, Z) -> (l X, l Z).
ecp_randomize_mxz(grp, P, rng) ==
    LET g == ecp_randomize_l(grp, rng, 0)
    IN  IF g.ret # 0
        THEN [ret |-> g.ret, pt |-> P, tr |-> <<>>, draws |-> g.draws]
        ELSE [ret |-> 0,
              pt |-> [P EXCEPT !.X = ecp_mul_mod(grp, P.X, g.l),
                               !.Z = ecp_mul_mod(grp, P.Z, g.l)],
              tr |-> <<"M", "M">>, draws |-> g.draws]

\* Double-and-add: R = 2P, S = P + Q, with d = X(P - Q).
\* R0 and S0 are the contents of R and S before the call.
ecp_double_add_mxz(grp, R0, S0, P, Q, d) ==
    LET A   == MOD_ADD(grp, mpi_v(P.X) + mpi_v(P.Z))
        AA  == ecp_sqr_mod(grp, A)
        B   == MOD_SUB(grp, mpi_v(P.X) - mpi_v(P.Z))
        BB  == ecp_sqr_mod(grp, B)
        E   == MOD_SUB(grp, AA - BB)
        C   == MOD_ADD(grp, mpi_v(Q.X) + mpi_v(Q.Z))
        D   == MOD_SUB(grp, mpi_v(Q.X) - mpi_v(Q.Z))
        DA  == ecp_mul_mod(grp, D, A)
        CB  == ecp_mul_mod(grp, C, B)
        SX  == ecp_sqr_mod(grp, ecp_modp(grp, DA + CB))
        SZ1 == ecp_sqr_mod(grp, MOD_SUB(grp, DA - CB))
        SZ  == ecp_mul_mod(grp, SZ1, d)
        RX  == ecp_mul_mod(grp, AA, BB)
        RZ1 == ecp_mul_mod(grp, grp.A, E)
        RZ2 == MOD_ADD(grp, BB + RZ1)
        RZ  == ecp_mul_mod(grp, RZ2, E)
    IN  [ret |-> 0,
         R |-> [R0 EXCEPT !.X = RX, !.Z = RZ],
         S |-> [S0 EXCEPT !.X = SX, !.Z = SZ],
         tr |-> <<"S", "S", "M", "M", "S", "S", "M", "M", "M", "M">>,
         \* the values left by the reduction steps, in program order
         vals |-> <<A, AA, B, BB, E, C, D, DA, CB, SX, SZ1, SZ, RX, RZ1, RZ2,
                    RZ>>]

\* A ladder iteration that does not swap R and RP back.
mxz_step_noswap(grp, st, b, PX) ==
    LET swapR(R, RP)  == IF b = 1 THEN [R EXCEPT !.X = RP.X, !.Z = RP.Z]
                         ELSE R
        swapRP(R, RP) == IF b = 1 THEN [RP EXCEPT !.X = R.X, !.Z = R.Z]
                         ELSE RP
        set(da) == [R |-> da.R, RP |-> da.S, tr |-> st.tr \o da.tr]
        da(R1, RP1) == set(ecp_double_add_mxz(grp, R1, RP1, R1, RP1, PX))
    IN  da(swapR(st.R, st.RP), swapRP(st.R, st.RP))

\* One iteration of the ladder loop of ecp_mul_mxz() on the bit b:
\* conditional swap, ecp_double_add_mxz(R, RP, R, RP, PX), swap back.
\* st holds R, RP and the trace.
mxz_step(grp, st, b, PX) ==
    LET \* ttls_mpi_safe_cond_swap() of X and Z on b
        swapR(R, RP)  == IF b = 1 THEN [R EXCEPT !.X = RP.X, !.Z = RP.Z]
                         ELSE R
        swapRP(R, RP) == IF b = 1 THEN [RP EXCEPT !.X = R.X, !.Z = R.Z]
                         ELSE RP
        set(da) == [R |-> swapR(da.R, da.S), RP |-> swapRP(da.R, da.S),
                    tr |-> st.tr \o da.tr]
        da(R1, RP1) == set(ecp_double_add_mxz(grp, R1, RP1, R1, RP1, PX))
    IN  da(swapR(st.R, st.RP), swapRP(st.R, st.RP))

\* The ladder loop of ecp_mul_mxz() over the bits i - 1 .. 0 of m.
RECURSIVE mxz_loop(_, _, _, _, _)
mxz_loop(grp, st, m, PX, i) ==
    IF i = 0 THEN st
    ELSE mxz_loop(grp, mxz_step(grp, st, ttls_mpi_get_bit(m, i - 1), PX),
                  m, PX, i - 1)

\* Multiplication with Montgomery ladder in x/z coordinates.
ecp_mul_mxz(grp, R0, m, P, rnd, rng) ==
    LET PX  == P.X
        RP0 == [P EXCEPT !.X = MOD_ADD(grp, mpi_v(P.X))]
        R1  == Pt(1, EMPTY, 0)
        norm(lp) ==
            LET set(nz) == [ret |-> nz.ret, R |-> nz.pt,
                            tr |-> lp.tr \o nz.tr, cases |-> <<>>,
                            tmp |-> FALSE, freed |-> FALSE]
            IN  set(ecp_normalize_mxz(grp, lp.R))
        loop(RP1, tr1) ==
            norm(mxz_loop(grp, [R |-> R1, RP |-> RP1, tr |-> tr1], m, PX,
                          ttls_mpi_bitlen(m)))
        rand(rz) ==
            IF rz.ret # 0
            THEN [ret |-> rz.ret, R |-> R1, tr |-> <<>>, cases |-> <<>>,
                  tmp |-> FALSE, freed |-> FALSE]
            ELSE loop(rz.pt, rz.tr)
    IN  rand(IF rnd THEN ecp_randomize_mxz(grp, RP0, rng)
             ELSE [ret |-> 0, pt |-> RP0, tr |-> <<>>])

\* ------------------------------------------------------------------------
\* Public multiplication
\* ------------------------------------------------------------------------

\* Multiplication R = m * P.
ttls_ecp_mul(grp, R0, m, P, rnd, rng, tmpT) ==
    IF ecp_get_type(grp) = ECP_TYPE_MONTGOMERY
    THEN ecp_mul_mxz(grp, R0, m, P, rnd, rng)
    ELSE ecp_mul_comb(grp, R0, m, P, rnd, rng, tmpT)

ttls_ecp_mul_g(grp, R0, m, rnd, rng) ==
    ttls_ecp_mul(grp, R0, m, grp.G, rnd, rng, TRUE)

\* Shortcuts that take m == -1 for m == 1.
ttls_ecp_mul_shortcuts_abs(grp, R0, m, P, tmpT) ==
    LET set(r) == [ret |-> r.ret, R |-> r.R, tr |-> r.tr]
    IN  IF m = 1 \/ m = -1 THEN [ret |-> 0, R |-> P, tr |-> <<>>]
        ELSE set(ttls_ecp_mul(grp, R0, m, P, FALSE, <<>>, tmpT))

\* R = m * P with shortcuts for m == 1 and m == -1.
ttls_ecp_mul_shortcuts(grp, R0, m, P, tmpT) ==
    LET set(r) == [ret |-> r.ret, R |-> r.R, tr |-> r.tr]
    IN  IF m = 1 THEN [ret |-> 0, R |-> P, tr |-> <<>>]
        ELSE IF m = -1
        THEN [ret |-> 0,
              R |-> IF ttls_mpi_cmp_int(P.Y, 0) # 0
                    THEN [P EXCEPT !.Y = grp.P - mpi_v(P.Y)] ELSE P,
              tr |-> <<>>]
        ELSE set(ttls_ecp_mul(grp, R0, m, P, FALSE, <<>>, tmpT))

\* Multiplication and addition of two points by integers:
\* R = m * grp->G + n * Q.
ttls_ecp_muladd(grp, R0, m, n, Q, tmpT) ==
    LET norm(tr, ad) ==
            LET set(nz) == [ret |-> nz.ret, R |-> nz.pt,
                            tr |-> tr \o ad.tr \o nz.tr]
            IN  IF ad.ret # 0
                THEN [ret |-> ad.ret, R |-> ad.R, tr |-> tr \o ad.tr]
                ELSE set(ecp_normalize_jac(grp, ad.R))
        add(mP, nQ) ==
            IF nQ.ret # 0
            THEN [ret |-> nQ.ret, R |-> nQ.R, tr |-> mP.tr \o nQ.tr]
            ELSE norm(mP.tr \o nQ.tr, ecp_add_mixed(grp, nQ.R, mP.R, nQ.R))
        second(mP) ==
            IF mP.ret # 0 THEN [ret |-> mP.ret, R |-> R0, tr |-> mP.tr]
            ELSE add(mP, ttls_ecp_mul_shortcuts(grp, R0, n, Q, tmpT))
    IN  IF ecp_get_type(grp) # ECP_TYPE_SHORT_WEIERSTRASS
        THEN [ret |-> -EINVAL, R |-> R0, tr |-> <<>>]
        ELSE second(ttls_ecp_mul_shortcuts(grp, ttls_ecp_point_init, m,
                                           grp.G, TRUE))

\* ------------------------------------------------------------------------
\* PointIO: SEC1 uncompressed point format
\* ------------------------------------------------------------------------

\* An export without the case P == 0.
ttls_ecp_point_write_binary_nozero(grp, P, olen0, buf0, buflen) ==
    LET plen   == ttls_mpi_size(grp.P)
        olen   == 2 * plen + 1
        wx     == ttls_mpi_write_binary(P.X, plen)
        wy     == ttls_mpi_write_binary(P.Y, plen)
        put(b) == [i \in 1..buflen |-> IF i <= Len(b) THEN b[i] ELSE buf0[i]]
    IN  IF buflen < olen
        THEN [ret |-> -ENOSPC, olen |-> olen, buf |-> buf0]
        ELSE IF wx.ret # 0 \/ wy.ret # 0
        THEN [ret |-> -ENOSPC, olen |-> olen, buf |-> put(<<4>>)]
        ELSE [ret |-> 0, olen |-> olen,
              buf |-> put(<<4>> \o wx.buf \o wy.buf)]

\* Export a point into unsigned binary data (SEC1 2.3.3).  olen0 and buf0
\* are the contents of *olen and of buf[0 .. buflen-1] before the call.
ttls_ecp_point_write_binary(grp, P, olen0, buf0, buflen) ==
    LET plen   == ttls_mpi_size(grp.P)
        olen   == 2 * plen + 1
        wx     == ttls_mpi_write_binary(P.X, plen)
        wy     == ttls_mpi_write_binary(P.Y, plen)
        put(b) == [i \in 1..buflen |-> IF i <= Len(b) THEN b[i] ELSE buf0[i]]
    IN  \* Common case: P == 0 .
        IF ttls_mpi_cmp_int(P.Z, 0) = 0
        THEN IF buflen < 1
             THEN [ret |-> -ENOSPC, olen |-> olen0, buf |-> buf0]
             ELSE [ret |-> 0, olen |-> 1, buf |-> put(<<0>>)]
        ELSE IF buflen < olen
        THEN [ret |-> -ENOSPC, olen |-> olen, buf |-> buf0]
        ELSE IF wx.ret # 0
        THEN [ret |-> -ENOSPC, olen |-> olen, buf |-> put(<<4>>)]
        ELSE IF wy.ret # 0
        THEN [ret |-> -ENOSPC, olen |-> olen, buf |-> put(<<4>> \o wx.buf)]
        ELSE [ret |-> 0, olen |-> olen,
              buf |-> put(<<4>> \o wx.buf \o wy.buf)]

\* An import that takes Y for X and X for Y.
ttls_ecp_point_read_binary_swap(grp, pt0, buf, ilen) ==
    LET plen == ttls_mpi_size(grp.P)
        bad  == [ret |-> TTLS_ERR_ECP_BAD_INPUT_DATA, pt |-> pt0]
    IN  IF ilen < 1 THEN bad
        ELSE IF buf[1] = 0
        THEN IF ilen = 1 THEN [ret |-> 0, pt |-> Pt(1, 1, 0)] ELSE bad
        ELSE IF buf[1] # 4
        THEN [ret |-> TTLS_ERR_ECP_FEATURE_UNAVAILABLE, pt |-> pt0]
        ELSE IF ilen # 2 * plen + 1 THEN bad
        ELSE [ret |-> 0,
              pt |-> Pt(ttls_mpi_read_binary(SubSeq(buf, plen + 2,
                                                    2 * plen + 1)),
                        ttls_mpi_read_binary(SubSeq(buf, 2, plen + 1)),
                        1)]

\* An import that takes a leading 0x00 of any length for the point at
\* infinity.
ttls_ecp_point_read_binary_anylen(grp, pt0, buf, ilen) ==
    LET plen == ttls_mpi_size(grp.P)
        bad  == [ret |-> TTLS_ERR_ECP_BAD_INPUT_DATA, pt |-> pt0]
    IN  IF ilen < 1 THEN bad
        ELSE IF buf[1] = 0 THEN [ret |-> 0, pt |-> Pt(1, 1, 0)]
        ELSE IF buf[1] # 4
        THEN [ret |-> TTLS_ERR_ECP_FEATURE_UNAVAILABLE, pt |-> pt0]
        ELSE IF ilen # 2 * plen + 1 THEN bad
        ELSE [ret |-> 0,
              pt |-> Pt(ttls_mpi_read_binary(SubSeq(buf, 2, plen + 1)),
                        ttls_mpi_read_binary(SubSeq(buf, plen + 2,
                                                    2 * plen + 1)),
                        1)]

\* Import a point from unsigned binary data (SEC1 2.3.4).  pt0 is the
\* content of pt before the call.
ttls_ecp_point_read_binary(grp, pt0, buf, ilen) ==
    LET plen == ttls_mpi_size(grp.P)
        bad  == [ret |-> TTLS_ERR_ECP_BAD_INPUT_DATA, pt |-> pt0]
    IN  IF ilen < 1 THEN bad
        ELSE IF buf[1] = 0
        THEN IF ilen = 1 THEN [ret |-> 0, pt |-> ttls_ecp_set_zero] ELSE bad
        ELSE IF buf[1] # 4
        THEN [ret |-> TTLS_ERR_ECP_FEATURE_UNAVAILABLE, pt |-> pt0]
        ELSE IF ilen # 2 * plen + 1 THEN bad
        ELSE [ret |-> 0,
              pt |-> Pt(ttls_mpi_read_binary(SubSeq(buf, 2, plen + 1)),
                        ttls_mpi_read_binary(SubSeq(buf, plen + 2,
                                                    2 * plen + 1)),
                        1)]

\* ------------------------------------------------------------------------
\* Keys
\* ------------------------------------------------------------------------

\* Check that a point is valid as a public key; debug: the build defines
\* DEBUG, without it the body of the function is compiled out.
ttls_ecp_check_pubkey(grp, pt, debug) ==
    LET YY   == ecp_sqr_mod(grp, pt.Y)
        XX   == ecp_sqr_mod(grp, pt.X)
        \* Special case for A = -3
        R1   == IF ttls_mpi_empty(grp.A) THEN MOD_SUB(grp, XX - 3)
                ELSE MOD_ADD(grp, XX + grp.A)
        RHS  == MOD_ADD(grp, ecp_mul_mod(grp, R1, pt.X) + grp.B)
    IN  IF ~debug THEN 0
        \* Must use affine coordinates
        ELSE IF ttls_mpi_cmp_int(pt.Z, 1) # 0 THEN -EINVAL
        ELSE IF ecp_get_type(grp) = ECP_TYPE_MONTGOMERY
        THEN IF ttls_mpi_size(mpi_v(pt.X)) > (grp.bits + 7) \div 8
             THEN -EINVAL ELSE 0
        ELSE IF ttls_mpi_cmp_mpi(pt.X, grp.P) >= 0
                \/ ttls_mpi_cmp_mpi(pt.Y, grp.P) >= 0
        THEN -EINVAL
        ELSE IF ttls_mpi_cmp_mpi(YY, RHS) # 0 THEN -EINVAL
        ELSE 0

\* Check that a TlsMpi is valid as a private key.
ttls_ecp_check_privkey(grp, d) ==
    IF ecp_get_type(grp) = ECP_TYPE_MONTGOMERY
    THEN IF ttls_mpi_get_bit(d, 0) # 0
            \/ ttls_mpi_get_bit(d, 1) # 0
            \/ ttls_mpi_get_bit(d, 2) # 0
            \/ ttls_mpi_bitlen(d) - 1 # grp.bits
         THEN -EINVAL ELSE 0
    ELSE IF ttls_mpi_cmp_int(d, 1) < 0 \/ ttls_mpi_cmp_mpi(d, grp.N) >= 0
         THEN -EINVAL ELSE 0

\* The Montgomery loop of ttls_ecp_gen_keypair(): draw until d has a bit.
RECURSIVE gk_nonzero(_, _)
gk_nonzero(rng, draws) ==
    IF ttls_mpi_bitlen(Head(rng)) = 0 THEN gk_nonzero(Tail(rng), draws + 1)
    ELSE [ret |-> 0, d |-> Head(rng), draws |-> draws + 1]

\* A clamp that sets the top bit and leaves the low bits.
gk_clamp_top(grp, d) ==
    LET b == ttls_mpi_bitlen(d) - 1
    IN  IF b > grp.bits THEN ttls_mpi_shift_r(d, b - grp.bits)
        ELSE ttls_mpi_set_bit(d, grp.bits, 1)

\* The Montgomery private scalar made of the draw d.
gk_clamp(grp, d) ==
    LET b  == ttls_mpi_bitlen(d) - 1
        d1 == IF b > grp.bits THEN ttls_mpi_shift_r(d, b - grp.bits)
              ELSE ttls_mpi_set_bit(d, grp.bits, 1)
    IN  ttls_mpi_set_bit(ttls_mpi_set_bit(ttls_mpi_set_bit(d1, 0, 0), 1, 0),
                         2, 0)

\* A loop that takes the first draw, whatever it is.
gk_draw_first(grp, rng, count) ==
    [ret |-> 0,
     d |-> ttls_mpi_shift_r(Head(rng),
                            8 * ((grp.bits + 7) \div 8) - grp.bits),
     draws |-> count + 1]

\* The short Weierstrass loop of ttls_ecp_gen_keypair(): generate d such
\* that 1 <= d < N; count is the loop counter before the draw.
RECURSIVE gk_draw(_, _, _)
gk_draw(grp, rng, count) ==
    LET n_size == (grp.bits + 7) \div 8
        d      == ttls_mpi_shift_r(Head(rng), 8 * n_size - grp.bits)
    IN  IF count + 1 > 10
        THEN [ret |-> TTLS_ERR_ECP_RANDOM_FAILED, d |-> d,
              draws |-> count + 1]
        ELSE IF ttls_mpi_cmp_int(d, 0) = 0
                \/ ttls_mpi_cmp_mpi(d, grp.N) >= 0
        THEN gk_draw(grp, Tail(rng), count + 1)
        ELSE [ret |-> 0, d |-> d, draws |-> count + 1]

\* Generate a keypair.  rng is the sequence of values that successive
\* ttls_mpi_fill_random() calls return; d0, Q0 the outputs' contents before.
ttls_ecp_gen_keypair(grp, d0, Q0, rng, debug) ==
    LET check(d, mul) ==
            IF mul.ret # 0 THEN [ret |-> mul.ret, d |-> d, Q |-> mul.R]
            ELSE [ret |-> ttls_ecp_check_pubkey(grp, mul.R, debug), d |-> d,
                  Q |-> mul.R]
        pub(g) ==
            IF g.ret # 0 THEN [ret |-> g.ret, d |-> g.d, Q |-> Q0]
            ELSE check(g.d, ttls_ecp_mul_g(grp, Q0, g.d, TRUE,
                                           SubSeq(rng, g.draws + 1, Len(rng))))
        mont(g) == [g EXCEPT !.d = gk_clamp(grp, g.d)]
    IN  pub(IF ecp_get_type(grp) = ECP_TYPE_MONTGOMERY
            THEN mont(gk_nonzero(rng, 0))
            ELSE gk_draw(grp, rng, 0))

\* ------------------------------------------------------------------------
\* Groups
\* ------------------------------------------------------------------------

\* The comb table of the generator that a loaded group carries.
ecp_group_T(g) ==
    LET w == (IF g.bits = 384 THEN 5 ELSE 4) + 1
        d == (g.bits + w - 1) \div w
        T0 == [i \in 0..(Pow2(w - 1) - 1) |-> ttls_ecp_point_init]
    IN  IF ttls_mpi_empty(g.G.Y) THEN T0
        ELSE ecp_precompute_comb(g, T0, g.G, w, d).T

\* y^2 = x^3 - 3x + 26 over GF(251), of prime order 223.
GrpW8 ==
    [id |-> 1, P |-> 251, A |-> EMPTY, B |-> 26, G |-> Pt(2, 84, 1),
     N |-> 223, bits |-> 8]

\* y^2 = x^3 - 3x + 7 over GF(1021), of prime order 991.
GrpW10 ==
    [id |-> 2, P |-> 1021, A |-> EMPTY, B |-> 7, G |-> Pt(1, 106, 1),
     N |-> 991, bits |-> 10]

\* y^2 = x^3 + 5x^2 + x over GF(127), A = (5 + 2) / 4, G of order 17.
GrpM ==
    [id |-> 3, P |-> 127, A |-> 97, B |-> EMPTY, G |-> Pt(18, EMPTY, 1),
     N |-> 17, bits |-> 6]

\* A group after ttls_ecp_group_load().
ttls_ecp_group_load(g) ==
    [id |-> g.id, P |-> g.P, A |-> g.A, B |-> g.B, G |-> g.G, N |-> g.N,
     bits |-> g.bits, T |-> ecp_group_T(g)]

\* ------------------------------------------------------------------------
\* Curve registry and TLS framing (RFC 8422 5.4)
\* ------------------------------------------------------------------------
TTLS_ECP_DP_NONE == 0
TTLS_ECP_DP_SECP256R1 == 1
TTLS_ECP_DP_SECP384R1 == 2

TTLS_ECP_TLS_NAMED_CURVE == 3

\* List of supported curves: internal ID, TLS NamedCurve ID, size in bits.
ecp_supported_curves ==
    <<[grp_id |-> TTLS_ECP_DP_SECP256R1, tls_id |-> 23, bit_size |-> 256],
      [grp_id |-> TTLS_ECP_DP_SECP384R1, tls_id |-> 24, bit_size |-> 384],
      [grp_id |-> TTLS_ECP_DP_NONE, tls_id |-> 0, bit_size |-> 0]>>

\* The scan of ttls_ecp_curve_info_from_grp_id() from entry i on; the
\* result is the index of the entry found, 0 stands for NULL.
RECURSIVE ci_from_grp_id(_, _)
ci_from_grp_id(grp_id, i) ==
    IF ecp_supported_curves[i].grp_id = TTLS_ECP_DP_NONE THEN 0
    ELSE IF ecp_supported_curves[i].grp_id = grp_id THEN i
    ELSE ci_from_grp_id(grp_id, i + 1)

\* Get the curve info for the internal identifier.
ttls_ecp_curve_info_from_grp_id(grp_id) == ci_from_grp_id(grp_id, 1)

\* The scan of ttls_ecp_curve_info_from_tls_id() from entry i on.
RECURSIVE ci_from_tls_id(_, _)
ci_from_tls_id(tls_id, i) ==
    IF ecp_supported_curves[i].grp_id = TTLS_ECP_DP_NONE THEN 0
    ELSE IF ecp_supported_curves[i].tls_id = tls_id THEN i
    ELSE ci_from_tls_id(tls_id, i + 1)

\* Get the curve info from the TLS identifier.
ttls_ecp_curve_info_from_tls_id(tls_id) == ci_from_tls_id(tls_id, 1)

\* The parameters that ttls_ecp_group_load() loads for an internal ID: the
\* scaled-down groups stand for secp256r1 and secp384r1.
ecp_group_params(grp_id) ==
    IF grp_id = TTLS_ECP_DP_SECP256R1 THEN GrpW8 ELSE GrpW10

\* ttls_ecp_tls_read_point() that hands the rest of the input, not the
\* data_len bytes of the record, to ttls_ecp_point_read_binary().
ttls_ecp_tls_read_point_rest(grp, pt0, buf, buf_len) ==
    LET data_len == buf[1]
        set(r) == [ret |-> r.ret, pt |-> r.pt, pos |-> 1 + data_len]
    IN  IF buf_len < 2
        THEN [ret |-> TTLS_ERR_ECP_BAD_INPUT_DATA, pt |-> pt0, pos |-> 0]
        ELSE IF data_len < 1 \/ data_len > buf_len - 1
        THEN [ret |-> TTLS_ERR_ECP_BAD_INPUT_DATA, pt |-> pt0, pos |-> 1]
        ELSE set(ttls_ecp_point_read_binary(grp, pt0,
                     SubSeq(buf, 2, buf_len), buf_len - 1))

\* Import a point from a TLS ECPoint record.  buf is the input from the
\* cursor *buf on, pt0 the content of pt before the call; pos is the number
\* of bytes the cursor has moved.
ttls_ecp_tls_read_point(grp, pt0, buf, buf_len) ==
    LET data_len == buf[1]
        set(r) == [ret |-> r.ret, pt |-> r.pt, pos |-> 1 + data_len]
    IN  IF buf_len < 2
        THEN [ret |-> TTLS_ERR_ECP_BAD_INPUT_DATA, pt |-> pt0, pos |-> 0]
        ELSE IF data_len < 1 \/ data_len > buf_len - 1
        THEN [ret |-> TTLS_ERR_ECP_BAD_INPUT_DATA, pt |-> pt0, pos |-> 1]
        ELSE set(ttls_ecp_point_read_binary(grp, pt0,
                     SubSeq(buf, 2, 1 + data_len), data_len))

\* Export a point as a TLS ECPoint record.  olen0 and buf0 are the contents
\* of *olen and of buf[0 .. blen-1] before the call.
ttls_ecp_tls_write_point(grp, pt, olen0, buf0, blen) ==
    LET set(r) ==
            IF r.ret # 0
            THEN [ret |-> r.ret, olen |-> r.olen,
                  buf |-> <<buf0[1]>> \o r.buf]
            ELSE [ret |-> 0, olen |-> r.olen + 1,
                  buf |-> <<r.olen % 256>> \o r.buf]
    IN  IF blen < 1 THEN [ret |-> -EINVAL, olen |-> olen0, buf |-> buf0]
        ELSE set(ttls_ecp_point_write_binary(grp, pt, olen0, Tail(buf0),
                                             blen - 1))

\* ttls_ecp_tls_read_group() with the two NamedCurve bytes or-ed together
\* without the shift of the first.
ttls_ecp_tls_read_group_noshift(grp0, buf, len) ==
    LET tls_id == BitOr(buf[2], buf[3])
        load(curve_info) ==
            IF curve_info = 0
            THEN [ret |-> TTLS_ERR_ECP_FEATURE_UNAVAILABLE, grp |-> grp0,
                  pos |-> 3]
            ELSE [ret |-> 0,
                  grp |-> ttls_ecp_group_load(ecp_group_params(
                              ecp_supported_curves[curve_info].grp_id)),
                  pos |-> 3]
    IN  IF len < 3
        THEN [ret |-> TTLS_ERR_ECP_BAD_INPUT_DATA, grp |-> grp0, pos |-> 0]
        ELSE IF buf[1] # TTLS_ECP_TLS_NAMED_CURVE
        THEN [ret |-> TTLS_ERR_ECP_BAD_INPUT_DATA, grp |-> grp0, pos |-> 1]
        ELSE load(ttls_ecp_curve_info_from_tls_id(tls_id))

\* Set a group from an ECParameters record.  grp0 is the content of grp
\* before the call, buf the input from the cursor on; pos is the number of
\* bytes the cursor has moved.
ttls_ecp_tls_read_group(grp0, buf, len) ==
    LET tls_id == BitOr((buf[2] * 256) % 65536, buf[3])
        load(curve_info) ==
            IF curve_info = 0
            THEN [ret |-> TTLS_ERR_ECP_FEATURE_UNAVAILABLE, grp |-> grp0,
                  pos |-> 3]
            ELSE [ret |-> 0,
                  grp |-> ttls_ecp_group_load(ecp_group_params(
                              ecp_supported_curves[curve_info].grp_id)),
                  pos |-> 3]
    IN  IF len < 3
        THEN [ret |-> TTLS_ERR_ECP_BAD_INPUT_DATA, grp |-> grp0, pos |-> 0]
        ELSE IF buf[1] # TTLS_ECP_TLS_NAMED_CURVE
        THEN [ret |-> TTLS_ERR_ECP_BAD_INPUT_DATA, grp |-> grp0, pos |-> 1]
        ELSE load(ttls_ecp_curve_info_from_tls_id(tls_id))

\* Write the ECParameters record corresponding to a group.
ttls_ecp_tls_write_group(grp, olen0, buf0, blen) ==
    LET curve_info == ttls_ecp_curve_info_from_grp_id(grp.id)
        tls_id     == ecp_supported_curves[curve_info].tls_id
        put(b) == [i \in 1..blen |-> IF i <= Len(b) THEN b[i] ELSE buf0[i]]
    IN  IF curve_info = 0
        THEN [ret |-> -EINVAL, olen |-> olen0, buf |-> buf0]
        ELSE IF blen < 3 THEN [ret |-> -ENOSPC, olen |-> 3, buf |-> buf0]
        ELSE [ret |-> 0, olen |-> 3,
              buf |-> put(<<TTLS_ECP_TLS_NAMED_CURVE, tls_id \div 256,
                            BitAnd(tls_id, 255)>>)]

\* ------------------------------------------------------------------------
\* Reference group law (affine, textbook formulas), used to state results
\* ------------------------------------------------------------------------
RefA(grp) == IF ttls_mpi_empty(grp.A) THEN grp.P - 3 ELSE grp.A

RefInf == Pt(1, 1, 0)

RefInv(grp, a) == egcd(a % grp.P, grp.P).x % grp.P

OnCurve(grp, pt) ==
    (pt.Y * pt.Y) % grp.P
      = (((pt.X * pt.X) % grp.P) * pt.X + RefA(grp) * pt.X + grp.B) % grp.P

RefAdd(grp, P, Q) ==
    LET p   == grp.P
        lam == IF P.X = Q.X
               THEN (((3 * P.X * P.X + RefA(grp)) % p)
                     * RefInv(grp, 2 * P.Y)) % p
               ELSE (((Q.Y - P.Y) % p) * RefInv(grp, Q.X - P.X)) % p
        x   == (lam * lam - P.X - Q.X) % p
        y   == (lam * ((P.X - x) % p) - P.Y) % p
    IN  IF P.Z = 0 THEN Q
        ELSE IF Q.Z = 0 THEN P
        ELSE IF P.X = Q.X /\ (P.Y + Q.Y) % p = 0 THEN RefInf
        ELSE Pt(x, y, 1)

RefNeg(grp, P) == IF P.Z = 0 THEN P ELSE Pt(P.X, (grp.P - P.Y) % grp.P, 1)

\* k * P by double-and-add, k >= 0.
RECURSIVE RefMul(_, _, _)
RefMul(grp, k, P) ==
    IF k = 0 THEN RefInf
    ELSE IF k % 2 = 0
    THEN LET h == RefMul(grp, k \div 2, P) IN RefAdd(grp, h, h)
    ELSE RefAdd(grp, RefMul(grp, k - 1, P), P)

\* Two normalised points are the same group element (coordinates compared
\* by value, as ttls_mpi_cmp_mpi() does).
PointEq(P, Q) ==
    IF mpi_v(P.Z) = 0 \/ mpi_v(Q.Z) = 0 THEN mpi_v(P.Z) = mpi_v(Q.Z)
    ELSE /\ mpi_v(P.X) = mpi_v(Q.X)
         /\ mpi_v(P.Y) = mpi_v(Q.Y)
         /\ mpi_v(P.Z) = mpi_v(Q.Z)

\* ------------------------------------------------------------------------
\* Tempesta DB: the list of open tables (tdb/core/main.c)
\*
\* The list is modelled byte by byte at a reduced scale: names of at most
\* TDB_TBLNAME_LEN = 2 characters and a page of 15 bytes, which gives
\* TDB_MAXTBL = 5 rows of TDB_TBLNAME_LEN + 1 bytes.  Byte 0 is NUL, the
\* characters are 1 .. TblChars.

TDB_TBLNAME_LEN == 2

PAGE_SIZE == 15

TDB_MAXTBL == PAGE_SIZE \div (TDB_TBLNAME_LEN + 1)

TblChars == 1

\* The values of db->tbl_name: TDB_TBLNAME_LEN + 1 bytes zeroed by kzalloc()
\* in tdb_open(), then a name of 1 .. TDB_TBLNAME_LEN characters copied in
\* by tdb_proc_tblpath().
TblNames ==
    {n \in [0..TDB_TBLNAME_LEN -> 0..TblChars] :
        /\ n[0] # 0
        /\ n[TDB_TBLNAME_LEN] = 0
        /\ \A k \in 0..(TDB_TBLNAME_LEN - 1) : n[k] = 0 => n[k + 1] = 0}

\* tdb_tbl_enumerate(db) on the list t = [tdb_tbls, tbl_last, listed]:
\* strncpy() writes TDB_TBLNAME_LEN bytes of the row, the characters up to
\* the first NUL and NULs after them.  listed is the history of the list:
\* the names stored and not yet removed, in order.
tdb_tbl_enumerate(t, tbl_name) ==
    IF t.tbl_last < TDB_MAXTBL
    THEN LET row == t.tbl_last * (TDB_TBLNAME_LEN + 1)
             strncpy(k) == IF \E j \in 0..k : tbl_name[j] = 0 THEN 0
                           ELSE tbl_name[k]
         IN  [t EXCEPT
                !.tdb_tbls = [q \in DOMAIN t.tdb_tbls |->
                    IF q >= row /\ q < row + TDB_TBLNAME_LEN
                    THEN strncpy(q - row) ELSE t.tdb_tbls[q]],
                !.tbl_last = t.tbl_last + 1,
                !.listed = Append(t.listed, tbl_name)]
    ELSE t

\* tdb_tbl_forget(db): the first row that strncmp() finds equal to the name
\* is removed by memmove(tdb_tbls[i], tdb_tbls[i + 1],
\* (tbl_last - i) * TDB_TBLNAME_LEN).  A byte the memmove() reads past the
\* end of tdb_tbls is oob[its offset past the end].  listed loses the
\* first entry equal to the name.
tdb_tbl_forget(t, tbl_name, oob) ==
    LET size == TDB_MAXTBL * (TDB_TBLNAME_LEN + 1)
        strncmp(i) ==
            LET r(k) == t.tdb_tbls[i * (TDB_TBLNAME_LEN + 1) + k]
            IN  ~ \A k \in 0..(TDB_TBLNAME_LEN - 1) :
                    (\A j \in 0..(k - 1) : tbl_name[j] # 0)
                        => tbl_name[k] = r(k)
        found == {i \in 0..(t.tbl_last - 1) : ~strncmp(i)}
        hit == {k \in 1..Len(t.listed) : t.listed[k] = tbl_name}
        s == CHOOSE k \in hit : \A y \in hit : k <= y
        listed == IF hit = {} THEN t.listed
                  ELSE [k \in 1..(Len(t.listed) - 1) |->
                            IF k < s THEN t.listed[k] ELSE t.listed[k + 1]]
    IN  IF found = {} THEN [t EXCEPT !.listed = listed]
        ELSE LET i == CHOOSE x \in found : \A y \in found : x <= y
                 dst == i * (TDB_TBLNAME_LEN + 1)
                 src == (i + 1) * (TDB_TBLNAME_LEN + 1)
                 n == (t.tbl_last - i) * TDB_TBLNAME_LEN
                 rd(q) == IF q < size THEN t.tdb_tbls[q] ELSE oob[q - size]
             IN  [t EXCEPT
                    !.tdb_tbls = [q \in DOMAIN t.tdb_tbls |->
                        IF i < TDB_MAXTBL - 1 /\ q >= dst /\ q < dst + n
                        THEN rd(src + (q - dst)) ELSE t.tdb_tbls[q]],
                    !.tbl_last = t.tbl_last - 1,
                    !.listed = listed]

\* ------------------------------------------------------------------------
\* The callers
\* ------------------------------------------------------------------------
VARIABLES
    grp,    \* the group the caller has loaded
    DEBUG,  \* the build defines DEBUG
    call,   \* the last call: its name, arguments, return code and outputs
    wire,   \* the exported point in flight to the peer, with the point sent
    tdb     \* Tempesta DB: the open-table list, the descriptors, the threads

vars == <<grp, DEBUG, call, wire, tdb>>

Groups == {GrpW8, GrpW10, GrpM}

\* Scalars of the randomised calls: 0 .. MaxRndScalar and the top ones.
MaxRndScalar == 3

\* Scalars of muladd: -1 .. MaxAddScalar and N - MaxAddScalar .. N - 1.
MaxAddScalar == 6

\* Base points other than G given to mul: affine points of order N.
MulPoints(g) ==
    IF g.id = 1 THEN {g.G, Pt(40, 34, 1)}
    ELSE IF g.id = 2 THEN {g.G, Pt(859, 751, 1)}
    ELSE {g.G}

\* Scalars given to mul.
MulScalars(g) ==
    IF ecp_get_type(g) = ECP_TYPE_MONTGOMERY
    THEN {m \in 0..(2 * Pow2(g.bits) - 1) : m % 8 = 0} \cup 1..9
    ELSE 0..(g.N - 1)

\* The second scalars added to k1.
SumScalars(g, k1) == {0, 1, 2, k1, (g.N - k1) % g.N, g.N - 1}

\* Scalars given to muladd.
AddScalars(g) == (-1..MaxAddScalar) \cup ((g.N - MaxAddScalar)..(g.N - 1))

p_size(g) == (g.bits + 7) \div 8

\* n draws of v followed by a draw of l, then zeroes.
RngRun(n, v, l) ==
    [i \in 1..12 |-> IF i <= n THEN v ELSE IF i = n + 1 THEN l ELSE 0]

\* CRNG outputs for the coordinate randomisation.
RngSeqs(g) ==
    {RngRun(0, 0, 2), RngRun(0, 0, 7), RngRun(0, 0, g.P - 1),
     RngRun(0, 0, Pow2(8 * p_size(g)) - 1),
     RngRun(1, 1, 5), RngRun(10, 0, 5), RngRun(11, 0, 5), RngRun(12, 1, 5)}

Init ==
    /\ grp \in {ttls_ecp_group_load(g) : g \in Groups}
    /\ DEBUG \in BOOLEAN
    /\ call = [op |-> "none"]
    /\ wire = <<>>
    /\ tdb = [tdb_tbls |-> [q \in 0..(TDB_MAXTBL * (TDB_TBLNAME_LEN + 1) - 1)
                                |-> 0],
              tbl_last |-> 0, listed |-> <<>>,
              dbs |-> <<>>, wq |-> <<>>, work |-> "tdb_file_open",
              closing |-> 0, freed_access |-> FALSE]

Weierstrass == ecp_get_type(grp) = ECP_TYPE_SHORT_WEIERSTRASS

\* The call has returned and the caller is ready for the next one.
Return ==
    /\ call.op \notin {"none", "ladder"}
    /\ call' = [op |-> "none"]
    /\ UNCHANGED <<grp, DEBUG, wire, tdb>>

\* ------------------------------------------------------------------------
\* Callers of the multiplication
\* ------------------------------------------------------------------------

\* The record of a returned ttls_ecp_mul() call: arguments and outputs.
MulCall(m, P, rnd, rng, tmpT, r) ==
    [op |-> "mul", m |-> m, P |-> P, rnd |-> rnd, rng |-> rng,
     tmpT |-> tmpT, ret |-> r.ret, R |-> r.R, tr |-> r.tr,
     cases |-> r.cases]

\* The caller runs ttls_ecp_mul(grp, R, m, P, false).
Mul ==
    /\ call.op = "none"
    /\ \E P \in MulPoints(grp), m \in MulScalars(grp), tmpT \in BOOLEAN :
        /\ tmpT \/ m <= MaxRndScalar
        /\ call' = MulCall(m, P, FALSE, <<>>, tmpT,
                           ttls_ecp_mul(grp, ttls_ecp_point_init, m, P, FALSE,
                                        <<>>, tmpT))
        /\ UNCHANGED <<grp, DEBUG, wire, tdb>>

\* The caller runs ttls_ecp_mul(grp, R, m, P, true).
MulRnd ==
    /\ call.op = "none"
    /\ \E P \in MulPoints(grp), m \in MulScalars(grp), rng \in RngSeqs(grp) :
        /\ m <= MaxRndScalar \/ m >= grp.N - MaxRndScalar
        /\ call' = MulCall(m, P, TRUE, rng, TRUE,
                           ttls_ecp_mul(grp, ttls_ecp_point_init, m, P, TRUE,
                                        rng, TRUE))
        /\ UNCHANGED <<grp, DEBUG, wire, tdb>>

\* R = P + Q, normalised: ecp_add_mixed() and then ecp_normalize_jac().
ecp_add_normalize(g, P, Q) ==
    LET norm(ad) ==
            LET set(nz) == [ret |-> nz.ret, R |-> nz.pt]
            IN  IF ad.ret # 0 THEN [ret |-> ad.ret, R |-> ad.R]
                ELSE set(ecp_normalize_jac(g, ad.R))
    IN  norm(ecp_add_mixed(g, ttls_ecp_point_init, P, Q))

\* The record of the calls that give k1 * G + k2 * G and (k1 + k2) * G:
\* r[1], r[2] and r[3] are what ttls_ecp_mul_g() returned for k1, k2 and
\* (k1 + k2) mod N.
SumCall(g, k1, k2, r) ==
    LET set(s) == [op |-> "sum", k1 |-> k1, k2 |-> k2,
                   rets |-> <<r[1].ret, r[2].ret, s.ret, r[3].ret>>,
                   A |-> r[1].R, B |-> r[2].R, S |-> s.R, M |-> r[3].R]
    IN  set(ecp_add_normalize(g, r[1].R, r[2].R))

\* The caller computes k1 * G and k2 * G, adds them, and computes
\* ((k1 + k2) mod N) * G.
MulSum ==
    /\ call.op = "none"
    /\ Weierstrass
    /\ \E k1 \in MulScalars(grp) :
        \E k2 \in SumScalars(grp, k1) :
          /\ call' = SumCall(grp, k1, k2,
                 [i \in 1..3 |->
                    ttls_ecp_mul_g(grp, ttls_ecp_point_init,
                                   <<k1, k2, (k1 + k2) % grp.N>>[i], FALSE,
                                   <<>>)])
          /\ UNCHANGED <<grp, DEBUG, wire, tdb>>

\* The record of a returned ttls_ecp_muladd() call.
MulAddCall(m, n, Q, tmpT, R0, r) ==
    [op |-> "muladd", m |-> m, n |-> n, Q |-> Q, tmpT |-> tmpT, R0 |-> R0,
     ret |-> r.ret, R |-> r.R, tr |-> r.tr]

\* The caller runs ttls_ecp_muladd(grp, R, m, n, Q).
MulAdd ==
    /\ call.op = "none"
    /\ \E m \in AddScalars(grp), n \in AddScalars(grp), Q \in MulPoints(grp),
         tmpT \in BOOLEAN :
        /\ tmpT \/ (m <= 1 /\ n <= 1)
        /\ call' = MulAddCall(m, n, Q, tmpT, ttls_ecp_point_init,
                              ttls_ecp_muladd(grp, ttls_ecp_point_init, m, n, Q,
                                              tmpT))
        /\ UNCHANGED <<grp, DEBUG, wire, tdb>>

NextMul == Mul \/ MulRnd \/ MulSum \/ MulAdd \/ Return

SpecMul == Init /\ [][NextMul]_vars

\* C1: on a short Weierstrass group, for an affine point P of order N and
\* 1 <= m < N, odd or even, ttls_ecp_mul(m, P) succeeds (unless the arena has
\* no room for the table or the CRNG gives no l), and the point it returns
\* has Z = 1, lies on the curve and is the reference multiple m * P.
C1_MulCorrect ==
    (call.op = "mul" /\ Weierstrass /\ call.m >= 1 /\ call.m < grp.N
     /\ call.ret # -ENOMEM /\ call.ret # TTLS_ERR_ECP_RANDOM_FAILED)
    => /\ call.ret = 0
       /\ call.R.Z = 1
       /\ OnCurve(grp, call.R)
       /\ call.R = RefMul(grp, call.m, call.P)

\* An even scalar, multiplied through N - m and a negation, on a point
\* other than G.
C1_Witness ==
    /\ call.op = "mul" /\ Weierstrass /\ call.ret = 0
    /\ call.m % 2 = 0 /\ call.m > 100 /\ call.P # grp.G
    /\ call.R = RefMul(grp, call.m, call.P)

\* C2: for all scalars k1, k2 in 0 .. N-1, the normalised sum of k1 * G and
\* k2 * G is the same point as ((k1 + k2) mod N) * G: every call succeeds,
\* both results have Z = 0 or Z = 1, and they are the same group element
\* (equal X and Y when Z = 1, both at infinity when Z = 0).
C2_MulAdditive ==
    (call.op = "sum")
    => /\ call.rets = <<0, 0, 0, 0>>
       /\ call.S.Z \in {0, 1} /\ call.M.Z \in {0, 1}
       /\ PointEq(call.S, call.M)

\* Two scalars that add up to N: the sum is the point at infinity.
C2_Witness ==
    /\ call.op = "sum" /\ call.k1 > 1 /\ call.k2 > 1
    /\ call.k1 + call.k2 = grp.N
    /\ call.rets = <<0, 0, 0, 0>>
    /\ call.S.Z = 0 /\ call.M.Z = 0

\* C3: for a fixed base point P, ttls_ecp_mul() with any valid scalar makes
\* the same sequence of ecp_mul_mod / ecp_sqr_mod calls as with the scalar 1
\* (same P, same rnd, same CRNG output).
C3_SameTrace ==
    (call.op = "mul" /\ Weierstrass /\ call.m >= 1 /\ call.m < grp.N
     /\ call.ret = 0)
    => call.tr = ttls_ecp_mul(grp, ttls_ecp_point_init, 1, call.P, call.rnd,
                              call.rng, call.tmpT).tr

\* C10: on a short Weierstrass group ttls_ecp_muladd(m, n, Q), with Q affine
\* and m, n in {-1} \cup 0 .. N-1, succeeds (unless the arena has no room for
\* the table of Q) and returns the normalised point m * G + n * Q; on a
\* Montgomery group it returns -EINVAL, leaves R as it was and makes no
\* ModArith call.
C10_MulAdd ==
    (call.op = "muladd")
    => IF Weierstrass
       THEN call.ret # -ENOMEM
            => /\ call.ret = 0
               /\ call.R.Z \in {0, 1}
               /\ PointEq(call.R,
                          RefAdd(grp, RefMul(grp, call.m % grp.N, grp.G),
                                 RefMul(grp, call.n % grp.N, call.Q)))
       ELSE call.ret = -EINVAL /\ call.R = call.R0 /\ call.tr = <<>>

\* m * G = n * Q with neither scalar a shortcut: the addition doubles.
C10_Witness ==
    /\ call.op = "muladd" /\ Weierstrass /\ call.ret = 0
    /\ call.m > 1 /\ call.n > 1 /\ call.R.Z = 1
    /\ RefMul(grp, call.m, grp.G) = RefMul(grp, call.n, call.Q)
    /\ call.R = RefMul(grp, 2 * call.m, grp.G)

\* ------------------------------------------------------------------------
\* Callers of the point export and import
\* ------------------------------------------------------------------------

\* Points given to ttls_ecp_point_write_binary(): normalised points, on the
\* curve and off it, and both forms of the point at infinity that the
\* functions above return.
IOPoints(g) ==
    MulPoints(g)
    \cup {ttls_ecp_set_zero, Pt(1, g.P - 1, 0), Pt(0, 1, 1),
          Pt(g.P - 1, g.P - 2, 1), Pt(Pow2(8 * p_size(g)) - 1, 0, 1)}

\* The SEC1 encoding of an affine point, with leading byte l.
Sec1(g, l, P) ==
    <<l>> \o be_bytes(mpi_v(P.X), p_size(g)) \o be_bytes(mpi_v(P.Y), p_size(g))

\* Byte strings a peer sends: encodings with every leading byte of SEC1 and
\* an unknown one, cut short or one byte too long, and the empty string.
IOBytes(g) ==
    {<<>>}
    \cup {SubSeq(Sec1(g, l, P) \o <<0>>, 1, n) :
            l \in {0, 2, 3, 4, 6, 7}, P \in MulPoints(g) \cup {Pt(0, 0, 1)},
            n \in 1..(2 * p_size(g) + 2)}

\* The record of a returned ttls_ecp_point_write_binary() call.
WriteCall(P, buflen, olen0, r) ==
    [op |-> "write", P |-> P, buflen |-> buflen, olen0 |-> olen0,
     ret |-> r.ret, olen |-> r.olen, buf |-> r.buf]

\* The caller exports P into a buffer of buflen bytes and, when the call
\* succeeds, sends the olen bytes to the peer.
WriteBinary ==
    /\ call.op = "none"
    /\ \E P \in IOPoints(grp), buflen \in 0..(2 * p_size(grp) + 2) :
        /\ call' = WriteCall(P, buflen, 255,
                     ttls_ecp_point_write_binary(grp, P, 255,
                         [i \in 1..buflen |-> 170], buflen))
        /\ wire' = IF call'.ret = 0
                   THEN <<[buf |-> SubSeq(call'.buf, 1, call'.olen), P |-> P]>>
                   ELSE wire
        /\ UNCHANGED <<grp, DEBUG, tdb>>

\* The record of a returned ttls_ecp_point_read_binary() call.
ReadCall(from, sent, buf, r) ==
    [op |-> "read", from |-> from, sent |-> sent, buf |-> buf,
     ilen |-> Len(buf), ret |-> r.ret, pt |-> r.pt]

\* The caller imports a byte string that a peer made up.
ReadBinary ==
    /\ call.op = "none"
    /\ \E buf \in IOBytes(grp) :
        /\ call' = ReadCall("peer", ttls_ecp_point_init, buf,
                     ttls_ecp_point_read_binary(grp, ttls_ecp_point_init, buf,
                                                Len(buf)))
        /\ UNCHANGED <<grp, DEBUG, wire, tdb>>

\* The peer imports the bytes that ttls_ecp_point_write_binary() produced.
Recv ==
    /\ call.op = "none"
    /\ wire # <<>>
    /\ call' = ReadCall("wire", wire[1].P, wire[1].buf,
                 ttls_ecp_point_read_binary(grp, ttls_ecp_point_init,
                                            wire[1].buf, Len(wire[1].buf)))
    /\ wire' = <<>>
    /\ UNCHANGED <<grp, DEBUG, tdb>>

NextIO == WriteBinary \/ ReadBinary \/ Recv \/ Return

SpecIO == Init /\ [][NextIO]_vars

\* C4: for every normalised point P, the point at infinity included,
\* ttls_ecp_point_read_binary() of the bytes that
\* ttls_ecp_point_write_binary(P) produced succeeds and gives P: the point
\* at infinity for P.Z = 0, and X, Y, Z of the same values otherwise.
C4_RoundTrip ==
    (call.op = "read" /\ call.from = "wire")
    => call.ret = 0 /\ PointEq(call.pt, call.sent)

\* An affine point with two-byte coordinates went through.
C4_Witness ==
    /\ call.op = "read" /\ call.from = "wire" /\ call.ret = 0
    /\ call.sent.Z = 1 /\ call.sent.X > 255 /\ call.sent.Y > 255
    /\ call.pt = call.sent

\* C5: ttls_ecp_point_write_binary(P) returns -ENOSPC exactly when the
\* buffer is shorter than the encoding (1 byte for P.Z = 0, 2 * plen + 1
\* otherwise) and 0 if not; on success olen is that length and the buffer
\* starts with the single byte 0x00 for P.Z = 0, and else with 0x04, X in
\* plen big-endian bytes and Y in plen big-endian bytes.
C5_WriteFormat ==
    (call.op = "write")
    => LET plen == p_size(grp)
           need == IF mpi_v(call.P.Z) = 0 THEN 1 ELSE 2 * plen + 1
           out  == SubSeq(call.buf, 1, need)
       IN  /\ call.ret = IF call.buflen < need THEN -ENOSPC ELSE 0
           /\ call.ret = 0
              => /\ call.olen = need
                 /\ out[1] = IF mpi_v(call.P.Z) = 0 THEN 0 ELSE 4
                 /\ \A i \in 1..need : out[i] \in 0..255
                 /\ mpi_v(call.P.Z) # 0
                    => /\ ttls_mpi_read_binary(SubSeq(out, 2, plen + 1))
                          = mpi_v(call.P.X)
                       /\ ttls_mpi_read_binary(
                              SubSeq(out, plen + 2, 2 * plen + 1))
                          = mpi_v(call.P.Y)

\* An affine point written into a buffer of exactly 2 * plen + 1 bytes.
C5_Witness ==
    /\ call.op = "write" /\ call.ret = 0 /\ call.P.Z = 1
    /\ call.buflen = 2 * p_size(grp) + 1 /\ p_size(grp) = 2
    /\ call.olen = 5 /\ call.buf[1] = 4 /\ call.P.X > 255

\* C6: ttls_ecp_point_read_binary(buf, len) returns the point at infinity
\* iff buf[0] = 0x00 and len = 1, returns (X, Y, 1) with the big-endian X
\* and Y iff buf[0] = 0x04 and len = 2 * plen + 1, and fails in every other
\* case without writing the point: BadInput for an empty input, for 0x00
\* with len > 1 and for 0x04 with another length, FeatureUnavailable for any
\* other leading byte.
C6_ReadCases ==
    (call.op = "read")
    => LET plen == p_size(grp)
           b    == call.buf
           len  == call.ilen
       IN  IF len = 0
           THEN call.ret = TTLS_ERR_ECP_BAD_INPUT_DATA
                /\ call.pt = ttls_ecp_point_init
           ELSE IF b[1] = 0
           THEN IF len = 1
                THEN call.ret = 0 /\ call.pt.Z = 0
                ELSE call.ret = TTLS_ERR_ECP_BAD_INPUT_DATA
                     /\ call.pt = ttls_ecp_point_init
           ELSE IF b[1] = 4
           THEN IF len = 2 * plen + 1
                THEN /\ call.ret = 0
                     /\ call.pt.Z = 1
                     /\ be_bytes(call.pt.X, plen) = SubSeq(b, 2, plen + 1)
                     /\ be_bytes(call.pt.Y, plen)
                        = SubSeq(b, plen + 2, 2 * plen + 1)
                ELSE call.ret = TTLS_ERR_ECP_BAD_INPUT_DATA
                     /\ call.pt = ttls_ecp_point_init
           ELSE call.ret = TTLS_ERR_ECP_FEATURE_UNAVAILABLE
                /\ call.pt = ttls_ecp_point_init

\* A compressed point of the right compressed length is refused.
C6_Witness ==
    /\ call.op = "read" /\ call.from = "peer"
    /\ call.ilen = p_size(grp) + 1 /\ call.buf[1] = 2
    /\ call.ret = TTLS_ERR_ECP_FEATURE_UNAVAILABLE

\* ------------------------------------------------------------------------
\* Callers of the key functions
\* ------------------------------------------------------------------------

\* Points given to ttls_ecp_check_pubkey(): every (x, y) with x among a few
\* values below and above p and y in 0 .. p + 1, and points whose Z is not 1.
PubPoints(g) ==
    {Pt(x, y, 1) : x \in {0, 1, 2, g.G.X, g.P - 1, g.P, g.P + g.G.X},
                   y \in 0..(g.P + 1)}
    \cup {Pt(P.X, P.Y, z) : P \in MulPoints(g), z \in {EMPTY, 0, 2, g.P + 1}}
    \cup {Pt(256, EMPTY, 1), Pt(255, EMPTY, 1), ttls_ecp_set_zero}

\* Scalars given to ttls_ecp_check_privkey().
PrivScalars(g) ==
    IF ecp_get_type(g) = ECP_TYPE_MONTGOMERY THEN (-2)..(4 * Pow2(g.bits))
    ELSE (-2)..(g.N + 8)

\* The value ttls_mpi_fill_random() returns for the draw that the short
\* Weierstrass loop shifts down to d.
KeyRaw(g, d) ==
    d * Pow2(8 * p_size(g) - g.bits) + (Pow2(8 * p_size(g) - g.bits) - 1)

\* CRNG output of a key generation: n draws of bad, the draw good, k draws
\* of 0, the draw l, then zeroes.
KeyRng(n, bad, good, k, l) ==
    [i \in 1..36 |-> IF i <= n THEN bad
                     ELSE IF i = n + 1 THEN good
                     ELSE IF i = n + k + 2 THEN l
                     ELSE 0]

\* CRNG outputs given to ttls_ecp_gen_keypair().
KeyRngs(g) ==
    IF ecp_get_type(g) = ECP_TYPE_MONTGOMERY
    THEN {KeyRng(n, 0, good, k, l) :
            n \in {0, 1, 11}, good \in 1..(Pow2(8 * p_size(g)) - 1),
            k \in {0, 11}, l \in {2}}
    ELSE {KeyRng(n, bad, KeyRaw(g, d), k, l) :
            n \in {0, 1, 9, 10, 11},
            bad \in {0, KeyRaw(g, g.N), KeyRaw(g, Pow2(g.bits) - 1)},
            d \in {1, 2, g.N - 1, g.N}, k \in {0, 1, 10, 11, 12},
            l \in {2, 1, g.P}}

\* The caller runs ttls_ecp_check_pubkey(grp, pt).
CheckPubkey ==
    /\ call.op = "none"
    /\ \E pt \in PubPoints(grp) :
        /\ call' = [op |-> "check_pubkey", pt |-> pt,
                    ret |-> ttls_ecp_check_pubkey(grp, pt, DEBUG)]
        /\ UNCHANGED <<grp, DEBUG, wire, tdb>>

\* The caller runs ttls_ecp_check_privkey(grp, d).
CheckPrivkey ==
    /\ call.op = "none"
    /\ \E d \in PrivScalars(grp) :
        /\ call' = [op |-> "check_privkey", d |-> d,
                    ret |-> ttls_ecp_check_privkey(grp, d)]
        /\ UNCHANGED <<grp, DEBUG, wire, tdb>>

\* The record of a returned ttls_ecp_gen_keypair() call.
GenCall(rng, r) ==
    [op |-> "gen_keypair", rng |-> rng, ret |-> r.ret, d |-> r.d, Q |-> r.Q]

\* The caller runs ttls_ecp_gen_keypair(grp, d, Q).
GenKeypair ==
    /\ call.op = "none"
    /\ \E rng \in KeyRngs(grp) :
        /\ call' = GenCall(rng, ttls_ecp_gen_keypair(grp, EMPTY,
                                  ttls_ecp_point_init, rng, DEBUG))
        /\ UNCHANGED <<grp, DEBUG, wire, tdb>>

NextKey == CheckPubkey \/ CheckPrivkey \/ GenKeypair \/ Return

SpecKey == Init /\ [][NextKey]_vars

\* A point is valid as a short Weierstrass public key: affine, with
\* coordinates below p, on the curve.
ValidPub(g, pt) ==
    /\ pt.Z = 1
    /\ pt.X >= 0 /\ pt.X < g.P /\ pt.Y >= 0 /\ pt.Y < g.P
    /\ OnCurve(g, pt)

\* C7: on a short Weierstrass group ttls_ecp_check_pubkey() returns -EINVAL
\* for every point with Z # 1, with X >= p or Y >= p, or off the curve, and
\* 0 for every affine point on the curve, in every build.
C7_AlwaysOn ==
    (call.op = "check_pubkey" /\ Weierstrass)
    => call.ret = IF ValidPub(grp, call.pt) THEN 0 ELSE -EINVAL

\* The draw that the short Weierstrass loop makes of the CRNG output v.
KeyDraw(g, v) == v \div Pow2(8 * p_size(g) - g.bits)

\* The index of the first of the first 10 draws with 1 <= d < N; 0 if none.
FirstValid(g, rng) ==
    LET ok(i) == KeyDraw(g, rng[i]) >= 1 /\ KeyDraw(g, rng[i]) < g.N
    IN  IF \E i \in 1..10 : ok(i)
        THEN CHOOSE i \in 1..10 : ok(i) /\ \A j \in 1..(i - 1) : ~ok(j)
        ELSE 0

\* The coordinate randomisation finds no l with 1 < l < p in the 11 draws
\* that follow draw i.
NoBlinding(g, rng, i) ==
    \A j \in 1..11 : rnd_reduce(g, rng[i + j]) <= 1

ValidPriv(g, d) ==
    IF ecp_get_type(g) = ECP_TYPE_MONTGOMERY
    THEN d % 8 = 0 /\ d >= Pow2(g.bits) /\ d < 2 * Pow2(g.bits)
    ELSE d >= 1 /\ d < g.N

\* C9: ttls_ecp_check_privkey(d) returns 0 exactly for 1 <= d < N on a short
\* Weierstrass group and exactly for the d with bits 0..2 clear and
\* bit length bits + 1 on a Montgomery group, -EINVAL for every other d; and
\* the d of every successful ttls_ecp_gen_keypair(), on either curve form
\* and for every CRNG output, is one that ttls_ecp_check_privkey() accepts.
C9_Privkey ==
    /\ call.op = "check_privkey"
       => call.ret = IF ValidPriv(grp, call.d) THEN 0 ELSE -EINVAL
    /\ (call.op = "gen_keypair" /\ call.ret = 0)
       => ValidPriv(grp, call.d) /\ ttls_ecp_check_privkey(grp, call.d) = 0

\* A Montgomery key made of a draw with the top bit above bits and low bits
\* set.
C9_Witness ==
    /\ call.op = "gen_keypair" /\ ~Weierstrass /\ call.ret = 0
    /\ call.rng[1] = 0 /\ call.rng[2] = 255
    /\ call.d = 120
    /\ ttls_ecp_check_privkey(grp, call.d) = 0

\* ------------------------------------------------------------------------
\* Callers of the TLS framing
\* ------------------------------------------------------------------------

\* ECPoint records a peer sends: a length byte, right or wrong, and a SEC1
\* encoding cut short or one byte too long; and the empty input.
TlsPointBytes(g) ==
    {<<>>}
    \cup {<<L>> \o SubSeq(Sec1(g, l, P) \o <<0>>, 1, n) :
            L \in {0, 1, p_size(g) + 1, 2 * p_size(g), 2 * p_size(g) + 1,
                   2 * p_size(g) + 2, 255},
            l \in {0, 2, 4}, P \in MulPoints(g),
            n \in 0..(2 * p_size(g) + 2)}

\* ECParameters records a peer sends: every curve type byte around
\* named_curve, registered and unregistered NamedCurve values, cut short or
\* one byte too long.
TlsGroupBytes ==
    {SubSeq(<<t, hi, lo, 0>>, 1, n) :
        t \in {0, 1, 2, 3, 4},
        hi \in {0, 1, 23, 24}, lo \in {0, 22, 23, 24, 25, 29},
        n \in 0..4}

\* The caller exports P as an ECPoint record into a buffer of blen bytes
\* and, when the call succeeds, sends the olen bytes to the peer.
TlsWritePoint ==
    /\ call.op = "none"
    /\ \E P \in IOPoints(grp), blen \in 0..(2 * p_size(grp) + 3) :
        /\ LET buf0 == [i \in 1..blen |-> 170]
               set(r) == [op |-> "tls_write_point", P |-> P, blen |-> blen,
                          olen0 |-> 255, buf0 |-> buf0, ret |-> r.ret,
                          olen |-> r.olen, buf |-> r.buf]
           IN  call' = set(ttls_ecp_tls_write_point(grp, P, 255, buf0, blen))
        /\ wire' = IF call'.ret = 0
                   THEN <<[buf |-> SubSeq(call'.buf, 1, call'.olen),
                           P |-> P, olen |-> call'.olen, gid |-> grp.id]>>
                   ELSE wire
        /\ UNCHANGED <<grp, DEBUG, tdb>>

\* The record of a returned ttls_ecp_tls_read_point() call.
TlsReadPointCall(from, sent, olen, buf, r) ==
    [op |-> "tls_read_point", from |-> from, sent |-> sent, olen |-> olen,
     buf |-> buf, buf_len |-> Len(buf), pt0 |-> ttls_ecp_point_init,
     ret |-> r.ret, pt |-> r.pt, pos |-> r.pos]

\* The caller imports an ECPoint record that a peer made up.
TlsReadPoint ==
    /\ call.op = "none"
    /\ \E buf \in TlsPointBytes(grp) :
        /\ call' = TlsReadPointCall("peer", ttls_ecp_point_init, 0, buf,
                     ttls_ecp_tls_read_point(grp, ttls_ecp_point_init, buf,
                                             Len(buf)))
        /\ UNCHANGED <<grp, DEBUG, wire, tdb>>

\* The peer imports, over the group the record was written for, the record
\* that ttls_ecp_tls_write_point() produced, followed in its input by more
\* bytes of the message.
TlsRecvPoint ==
    /\ call.op = "none"
    /\ wire # <<>>
    /\ "olen" \in DOMAIN wire[1]
    /\ wire[1].gid = grp.id
    /\ \E more \in {<<>>, <<4>>, <<0, 1>>} :
        /\ call' = TlsReadPointCall("wire", wire[1].P, wire[1].olen,
                     wire[1].buf \o more,
                     ttls_ecp_tls_read_point(grp, ttls_ecp_point_init,
                                             wire[1].buf \o more,
                                             Len(wire[1].buf \o more)))
        /\ wire' = <<>>
        /\ UNCHANGED <<grp, DEBUG, tdb>>

\* The caller writes the ECParameters record of its group into a buffer of
\* blen bytes and, when the call succeeds, sends the olen bytes.
TlsWriteGroup ==
    /\ call.op = "none"
    /\ \E blen \in 0..4 :
        /\ LET buf0 == [i \in 1..blen |-> 170]
               set(r) == [op |-> "tls_write_group", blen |-> blen,
                          olen0 |-> 255, buf0 |-> buf0, ret |-> r.ret,
                          olen |-> r.olen, buf |-> r.buf]
           IN  call' = set(ttls_ecp_tls_write_group(grp, 255, buf0, blen))
        /\ wire' = IF call'.ret = 0
                   THEN <<[buf |-> SubSeq(call'.buf, 1, call'.olen),
                           id |-> grp.id]>>
                   ELSE wire
        /\ UNCHANGED <<grp, DEBUG, tdb>>

\* The record of a returned ttls_ecp_tls_read_group() call.
TlsReadGroupCall(from, sent, grp0, buf, r) ==
    [op |-> "tls_read_group", from |-> from, sent |-> sent, grp0 |-> grp0,
     buf |-> buf, len |-> Len(buf), ret |-> r.ret, grp |-> r.grp,
     pos |-> r.pos]

\* The caller sets its group from an ECParameters record a peer made up.
TlsReadGroup ==
    /\ call.op = "none"
    /\ \E buf \in TlsGroupBytes :
        /\ call' = TlsReadGroupCall("peer", 0, grp, buf,
                     ttls_ecp_tls_read_group(grp, buf, Len(buf)))
        /\ grp' = call'.grp
        /\ UNCHANGED <<DEBUG, wire, tdb>>

\* The caller sets its group from the record that
\* ttls_ecp_tls_write_group() produced, followed by more bytes.
TlsRecvGroup ==
    /\ call.op = "none"
    /\ wire # <<>>
    /\ "id" \in DOMAIN wire[1]
    /\ \E more \in {<<>>, <<65>>} :
        /\ call' = TlsReadGroupCall("wire", wire[1].id, grp,
                     wire[1].buf \o more,
                     ttls_ecp_tls_read_group(grp, wire[1].buf \o more,
                                             Len(wire[1].buf \o more)))
        /\ grp' = call'.grp
        /\ wire' = <<>>
        /\ UNCHANGED <<DEBUG, tdb>>

NextTls ==
    \/ WriteBinary \/ ReadBinary
    \/ TlsWritePoint \/ TlsReadPoint \/ TlsRecvPoint
    \/ TlsWriteGroup \/ TlsReadGroup \/ TlsRecvGroup
    \/ Return

SpecTls == Init /\ [][NextTls]_vars

\* C11: ttls_ecp_tls_read_group() returns BadInput for an input of fewer
\* than 3 bytes and for a first byte other than 0x03, FeatureUnavailable
\* for a 16-bit NamedCurve value that is not registered (23 and 24 are),
\* leaving the group as it was, and otherwise loads the group registered
\* under that value; and the 3 bytes that ttls_ecp_tls_write_group() wrote
\* for a registered group, 0x03 and the value, read back as the same
\* group id.
C11_ReadGroup ==
    /\ call.op = "tls_read_group"
       => LET b == call.buf
          IN  /\ IF call.len < 3 \/ b[1] # 3
                 THEN /\ call.ret = TTLS_ERR_ECP_BAD_INPUT_DATA
                      /\ call.grp = call.grp0
                 ELSE IF 256 * b[2] + b[3] \notin {23, 24}
                 THEN /\ call.ret = TTLS_ERR_ECP_FEATURE_UNAVAILABLE
                      /\ call.grp = call.grp0
                 ELSE /\ call.ret = 0
                      /\ call.grp.id = IF 256 * b[2] + b[3] = 23
                                       THEN TTLS_ECP_DP_SECP256R1
                                       ELSE TTLS_ECP_DP_SECP384R1
              /\ call.from = "wire"
                 => call.ret = 0 /\ call.grp.id = call.sent
    /\ (call.op = "tls_write_group" /\ call.ret = 0)
       => /\ call.olen = 3 /\ call.buf[1] = 3
          /\ 256 * call.buf[2] + call.buf[3] \in {23, 24}

\* The record written for one group is read back by a caller that holds
\* the other group.
C11_Witness ==
    /\ call.op = "tls_read_group" /\ call.from = "wire" /\ call.ret = 0
    /\ call.grp0.id # call.sent
    /\ call.grp.id = call.sent
    /\ call.pos = 3 /\ call.len = 4

\* C12: ttls_ecp_tls_read_point() returns BadInput when buf_len < 2 or when
\* the length byte L is not in 1 .. buf_len - 1; otherwise it decodes the L
\* bytes after the length byte, and no other byte, as a SEC1 point (one
\* zero byte is the point at infinity, 0x04 and 2*plen bytes are X and Y),
\* and on success the cursor has moved by L + 1.  Applied to the bytes that
\* ttls_ecp_tls_write_point() wrote for P, followed by anything, it returns
\* P and moves the cursor by olen.
C12_ReadPoint ==
    call.op = "tls_read_point"
    => LET b == call.buf
           L == b[1]
           plen == p_size(grp)
           \* the integer that plen bytes of b from lo on spell, big endian
           be(lo) == IF plen = 1 THEN b[lo] ELSE 256 * b[lo] + b[lo + 1]
       IN  /\ IF call.buf_len < 2 \/ L < 1 \/ L > call.buf_len - 1
              THEN call.ret = TTLS_ERR_ECP_BAD_INPUT_DATA
              ELSE IF b[2] = 0
              THEN IF L = 1
                   THEN call.ret = 0 /\ call.pt.Z = 0
                   ELSE call.ret = TTLS_ERR_ECP_BAD_INPUT_DATA
              ELSE IF b[2] # 4
              THEN call.ret = TTLS_ERR_ECP_FEATURE_UNAVAILABLE
              ELSE IF L # 2 * plen + 1
              THEN call.ret = TTLS_ERR_ECP_BAD_INPUT_DATA
              ELSE /\ call.ret = 0
                   /\ call.pt.X = be(3)
                   /\ call.pt.Y = be(3 + plen)
                   /\ call.pt.Z = 1
           /\ call.ret = 0 => call.pos = L + 1
           /\ call.from = "wire"
              => /\ call.ret = 0
                 /\ call.pos = call.olen
                 /\ IF call.sent.Z = 0 THEN call.pt.Z = 0
                    ELSE /\ call.pt.X = mpi_v(call.sent.X)
                         /\ call.pt.Y = mpi_v(call.sent.Y)
                         /\ call.pt.Z = 1

\* An affine point written as an ECPoint record is read back from an input
\* that goes on after the record.
C12_Witness ==
    /\ call.op = "tls_read_point" /\ call.from = "wire" /\ call.ret = 0
    /\ call.sent.Z = 1 /\ call.pt.X = call.sent.X /\ call.pt.X > 255
    /\ call.buf_len = call.olen + 2
    /\ call.pos = 2 * p_size(grp) + 2

\* C13: whenever ttls_ecp_point_write_binary(), ttls_ecp_tls_write_point(),
\* ttls_ecp_point_read_binary(), ttls_ecp_tls_read_point(),
\* ttls_ecp_tls_read_group() or ttls_ecp_tls_write_group() returns an
\* error, *olen, the output buffer, the destination point or group and the
\* input cursor are as they were before the call.
C13_NoPartial ==
    (call.op \in {"write", "tls_write_point", "read", "tls_read_point",
                  "tls_read_group", "tls_write_group"} /\ call.ret # 0)
    => CASE call.op = "write" ->
              /\ call.olen = call.olen0
              /\ \A i \in 1..call.buflen : call.buf[i] = 170
         [] call.op \in {"tls_write_point", "tls_write_group"} ->
              call.olen = call.olen0 /\ call.buf = call.buf0
         [] call.op = "read" -> call.pt = ttls_ecp_point_init
         [] call.op = "tls_read_point" ->
              call.pt = call.pt0 /\ call.pos = 0
         [] call.op = "tls_read_group" ->
              call.grp = call.grp0 /\ call.pos = 0

\* ------------------------------------------------------------------------
\* Callers of the multiplication: the comb tables
\* ------------------------------------------------------------------------

\* The caller loads a group.
Load ==
    /\ call.op = "none"
    /\ \E g \in Groups :
        /\ grp' = ttls_ecp_group_load(g)
        /\ call' = [op |-> "load", id |-> g.id]
    /\ UNCHANGED <<DEBUG, wire, tdb>>

\* The caller runs ttls_ecp_mul(grp, R, m, P, rnd) on a base point that it
\* has not validated: G, a point of order N, or a point with Y = 0, which
\* no doubling can take.  The record of the
\* call says what it did to the transient comb table: tmp, one was created;
\* freed, it was released.
MulTable ==
    /\ call.op = "none"
    /\ \E P \in MulPoints(grp) \cup {Pt(5, 0, 1)},
          m \in {1, 2, 5, grp.N - 1},
          rnd \in BOOLEAN, rng \in RngSeqs(grp), tmpT \in BOOLEAN :
        /\ LET set(r) == [op |-> "mul_comb", m |-> m, P |-> P, rnd |-> rnd,
                          rng |-> rng, tmpT |-> tmpT, ret |-> r.ret,
                          R |-> r.R, tmp |-> r.tmp, freed |-> r.freed]
           IN  call' = set(ttls_ecp_mul(grp, ttls_ecp_point_init, m, P, rnd,
                                        rng, tmpT))
        /\ UNCHANGED <<grp, DEBUG, wire, tdb>>

\* ecp_precompute_comb(grp, T, P, w, d) as ecp_mul_comb() calls it: on a
\* fresh table, for P = k * G with 0 < k < N, with the window of another
\* point (w = 4) or of the generator (w = 5) and d = ceil(bits / w).
PrecomputeComb ==
    /\ call.op = "none"
    /\ Weierstrass
    /\ \E k \in 1..(grp.N - 1), w \in {4, 5} :
        LET P  == RefMul(grp, k, grp.G)
            d  == (grp.bits + w - 1) \div w
            T0 == [i \in 0..(Pow2(w - 1) - 1) |-> ttls_ecp_point_init]
            set(r) == [op |-> "precompute_comb", k |-> k, P |-> P, w |-> w,
                       d |-> d, ret |-> r.ret, T |-> r.T]
        IN  call' = set(ecp_precompute_comb(grp, T0, P, w, d))
    /\ UNCHANGED <<grp, DEBUG, wire, tdb>>

\* Scalars of the blinded calls: 1 .. MaxBlindScalar.
MaxBlindScalar == 3

\* The caller runs ttls_ecp_mul(grp, R, m, P, rnd) twice, with rnd = true
\* and the CRNG returning l at the first draw, and with rnd = false; r[1]
\* and r[2] are what the two calls returned.
MulBlind ==
    /\ call.op = "none"
    /\ \E P \in MulPoints(grp), l \in 2..(grp.P - 1),
          m \in 1..MaxBlindScalar :
        LET set(r) == [op |-> "mul_blind", m |-> m, P |-> P, l |-> l,
                       rets |-> <<r[1].ret, r[2].ret>>,
                       Rrnd |-> r[1].R, R |-> r[2].R]
        IN  call' = set([i \in 1..2 |->
                            ttls_ecp_mul(grp, ttls_ecp_point_init, m, P,
                                         i = 1, RngRun(0, 0, l), TRUE)])
    /\ UNCHANGED <<grp, DEBUG, wire, tdb>>

NextTable == Load \/ MulTable \/ PrecomputeComb \/ MulBlind \/ Return

SpecTable == Init /\ [][NextTable]_vars

C15_TableReleased ==
    call.op = "mul_comb"
    => /\ call.tmp => call.freed
       /\ call.freed => call.tmp
       /\ call.tmp <=> (Weierstrass /\ call.P # grp.G /\ call.tmpT)
       /\ ~call.tmpT /\ Weierstrass /\ call.P # grp.G
          => call.ret = -ENOMEM

\* The precomputation fails on a base point with Y = 0 and the table it
\* was filling is released.
C15_Witness ==
    /\ call.op = "mul_comb" /\ call.P.Y = 0
    /\ call.ret = TTLS_ERR_MPI_NOT_ACCEPTABLE
    /\ call.tmp /\ call.freed

\* ------------------------------------------------------------------------
\* Callers of the comb recoding
\* ------------------------------------------------------------------------

\* The longest scalar recoded, in bits: w * d <= MaxCombBits.
MaxCombBits == 14

\* ecp_mul_comb() recodes an odd scalar of at most w * d bits with a comb
\* of w teeth.
CombFixed ==
    /\ call.op = "none"
    /\ \E w \in 2..7, d \in 1..(MaxCombBits \div 2) :
        /\ w * d <= MaxCombBits
        /\ \E m \in 1..(Pow2(w * d) - 1) :
            /\ m % 2 = 1
            /\ call' = [op |-> "comb_fixed", d |-> d, w |-> w, m |-> m,
                        x |-> ecp_comb_fixed(d, w, m)]
    /\ UNCHANGED <<grp, DEBUG, wire, tdb>>

NextComb == CombFixed \/ Return

SpecComb == Init /\ [][NextComb]_vars

\* C16: for every w in 2 .. 7, every d >= 1 and every odd m of at most
\* w * d bits, the signed digits x[0 .. d] of ecp_comb_fixed() add up to m,
\* where bit j of the low 7 bits of x[i] weighs 2^(i + d * j) and the digit
\* counts negative when bit 7 of x[i] is set.
C16_Reconstruct ==
    call.op = "comb_fixed"
    => LET x == call.x
           d == call.d
           RECURSIVE teeth(_, _)
           teeth(i, j) ==
               IF j < 0 THEN 0
               ELSE (((x[i] % 128) \div Pow2(j)) % 2) * Pow2(i + d * j)
                    + teeth(i, j - 1)
           s(i) == IF (x[i] \div 128) % 2 = 1 THEN -1 ELSE 1
           RECURSIVE sum(_)
           sum(i) == IF i < 0 THEN 0
                     ELSE s(i) * teeth(i, call.w - 1) + sum(i - 1)
       IN  sum(d) = call.m

\* A scalar of 14 bits recoded with 7 teeth, with negative digits and a
\* top digit made of a carry.
C16_Witness ==
    /\ call.op = "comb_fixed" /\ call.w = 7 /\ call.d = 2
    /\ call.m >= Pow2(13)
    /\ call.x[0] >= 128 /\ call.x[1] >= 128 /\ call.x[2] > 1

\* C18: for every odd m of at most w * d bits, every x[i], i in 0 .. d,
\* that ecp_comb_fixed() produces has in its low 7 bits an odd value in
\* 1 .. 2^w - 1, nothing above bit 7, and x[d] has bit 7 clear.
C18_OddDigits ==
    call.op = "comb_fixed"
    => /\ DOMAIN call.x = 0..call.d
       /\ \A i \in 0..call.d :
            /\ call.x[i] \in 0..255
            /\ (call.x[i] % 128) % 2 = 1
            /\ call.x[i] % 128 <= Pow2(call.w) - 1
       /\ call.x[call.d] < 128

\* A scalar whose classical comb has a zero digit and an even digit.
C18_Witness ==
    /\ call.op = "comb_fixed" /\ call.w = 3 /\ call.d = 4
    /\ cf_classic(call.m, call.d, 1, call.w) = 0
    /\ cf_classic(call.m, call.d, 2, call.w) = 2
    /\ call.x[1] % 2 = 1 /\ call.x[2] % 2 = 1

\* ------------------------------------------------------------------------
\* Callers of the Jacobian arithmetic
\* ------------------------------------------------------------------------

\* The multiples of G handed to the arithmetic: 1 .. MaxJacMul and
\* N - MaxJacMul .. N - 1.
MaxJacMul == 5

\* Jacobian points with Z # 0: the multiples of G scaled by l = 1, 2, p - 1,
\* each with the affine point it stands for.
JacPoints(g) ==
    LET \* the point (X, Y, 1) in Jacobian coordinates with Z = l
        Jac(P, l) ==
            Pt((P.X * ((l * l) % g.P)) % g.P,
               (P.Y * ((((l * l) % g.P) * l) % g.P)) % g.P, l)
        both(P, l) == [pt |-> Jac(P, l), aff |-> P]
    IN  {both(RefMul(g, k, g.G), l) :
            k \in (1..MaxJacMul) \cup ((g.N - MaxJacMul)..(g.N - 1)),
            l \in {1, 2, g.P - 1}}

\* The second operands of ecp_add_mixed(): table entries with Z = 1 or Z
\* unset, the zero point, and points with a Z that is neither.
MixedPoints(g) ==
    {[pt |-> [J.pt EXCEPT !.Z = z], aff |-> J.aff] :
        J \in {K \in JacPoints(g) : K.pt.Z = 1}, z \in {1, EMPTY}}
    \cup {[pt |-> ttls_ecp_set_zero, aff |-> RefInf]}
    \cup {J \in JacPoints(g) : J.pt.Z # 1}

\* ecp_add_mixed(grp, R, P, Q) on a result point that holds (7, 7, 7).
AddMixed ==
    /\ call.op = "none"
    /\ Weierstrass
    /\ \E P \in JacPoints(grp)
               \cup {[pt |-> ttls_ecp_set_zero, aff |-> RefInf]},
          Q \in MixedPoints(grp) :
        LET set(r) == [op |-> "add_mixed", P |-> P.pt, Pa |-> P.aff,
                       Q |-> Q.pt, Qa |-> Q.aff, R0 |-> Pt(7, 7, 7),
                       ret |-> r.ret, R |-> r.R, case |-> r.case]
        IN  call' = set(ecp_add_mixed(grp, Pt(7, 7, 7), P.pt, Q.pt))
    /\ UNCHANGED <<grp, DEBUG, wire, tdb>>

\* ecp_normalize_jac_many() on an array of 2 or 3 points with Z # 0, and
\* ecp_normalize_jac() on each of them.
NormalizeMany ==
    /\ call.op = "none"
    /\ Weierstrass
    /\ \E n \in 2..3 :
        \E T0 \in [0..(n - 1) -> {J.pt : J \in JacPoints(grp)}] :
            LET set(r) ==
                    [op |-> "normalize_many", T0 |-> T0, ret |-> r.ret,
                     T |-> r.T,
                     one |-> [i \in 0..(n - 1) |->
                                ecp_normalize_jac(grp, T0[i])]]
            IN  call' = set(ecp_normalize_jac_many(grp, T0,
                                [i \in 1..n |-> i - 1]))
    /\ UNCHANGED <<grp, DEBUG, wire, tdb>>

\* ecp_select_comb() on the comb table of the group, whole (t_len = 16) or
\* its first half (t_len = 8), with every digit that selects an entry.
SelectComb ==
    /\ call.op = "none"
    /\ Weierstrass
    /\ \E t_len \in {8, 16}, R0 \in {Pt(0, 0, 0), Pt(7, 7, 7), Pt(0, 0, EMPTY)} :
        \E c \in {b \in 0..255 : (b % 128) \div 2 < t_len} :
            LET set(r) == [op |-> "select_comb", T |-> grp.T,
                           t_len |-> t_len, c |-> c, R0 |-> R0,
                           R |-> r.R, rd |-> r.rd]
            IN  call' = set(ecp_select_comb_rd(grp, R0, grp.T, t_len, c))
    /\ UNCHANGED <<grp, DEBUG, wire, tdb>>

\* ecp_randomize_jac() on a Jacobian point of a short Weierstrass group,
\* ecp_randomize_mxz() on an x/z point of a Montgomery group; rng is what
\* the successive ttls_mpi_fill_random() calls return.
Randomize ==
    /\ call.op = "none"
    /\ \E rng \in RngSeqs(grp),
          pt \in IF Weierstrass THEN {J.pt : J \in JacPoints(grp)}
                 ELSE {Pt(grp.G.X, EMPTY, 1), Pt(1, EMPTY, 0),
                       Pt((grp.G.X * 3) % grp.P, EMPTY, 3)} :
        LET set(r) == [op |-> "randomize", pt |-> pt, rng |-> rng,
                       ret |-> r.ret, R |-> r.pt, draws |-> r.draws]
        IN  call' = set(IF Weierstrass THEN ecp_randomize_jac(grp, pt, rng)
                        ELSE ecp_randomize_mxz(grp, pt, rng))
    /\ UNCHANGED <<grp, DEBUG, wire, tdb>>

NextJac == AddMixed \/ NormalizeMany \/ SelectComb \/ Randomize \/ Return

SpecJac == Init /\ [][NextJac]_vars

\* C17: on an array of 2 or more Jacobian points with Z # 0,
\* ecp_normalize_jac_many() succeeds and leaves in each entry the X and Y
\* that ecp_normalize_jac() computes for that entry alone, with Z unset,
\* which ecp_add_mixed() reads as Z = 1.
C17_BatchAgrees ==
    call.op = "normalize_many"
    => /\ call.ret = 0
       /\ \A i \in DOMAIN call.T0 :
            /\ call.one[i].ret = 0
            /\ call.one[i].pt.Z = 1
            /\ call.T[i].X = call.one[i].pt.X
            /\ call.T[i].Y = call.one[i].pt.Y
            /\ ttls_mpi_empty(call.T[i].Z)
            /\ ecp_add_mixed(grp, ttls_ecp_point_init, call.T0[0], call.T[i])
               = ecp_add_mixed(grp, ttls_ecp_point_init, call.T0[0],
                               call.one[i].pt)

\* Three different points with three different Z are normalised at once.
C17_Witness ==
    /\ call.op = "normalize_many" /\ call.ret = 0
    /\ DOMAIN call.T0 = 0..2
    /\ call.T0[0].Z = 1 /\ call.T0[1].Z = 2 /\ call.T0[2].Z = grp.P - 1
    /\ call.T0[1].X # call.T[1].X
    /\ call.T[0].X # call.T[1].X /\ call.T[1].X # call.T[2].X

\* C19: ecp_add_mixed(R, P, Q) with Q affine or zero gives the sum of the
\* group law in every special case: R = Q when P is zero, R = P when Q is
\* zero, the result of ecp_double_jac(P) when P and Q are the same point,
\* the zero point when P = -Q; and in every case the point that R stands
\* for is the sum of the points that P and Q stand for.
C19_SpecialCases ==
    (call.op = "add_mixed" /\ (call.Q.Z \in {0, 1} \/ ttls_mpi_empty(call.Q.Z)))
    => /\ call.ret = 0
       /\ IF call.P.Z = 0 THEN call.R = call.Q
          ELSE IF call.Q.Z = 0 THEN call.R = call.P
          ELSE IF call.Pa = call.Qa
          THEN /\ call.R = ecp_double_jac(grp, call.P).R
               /\ PointEq(ecp_normalize_jac(grp, call.R).pt,
                          RefAdd(grp, call.Pa, call.Pa))
          ELSE IF call.Pa = RefNeg(grp, call.Qa)
          THEN call.R.Z = 0
          ELSE PointEq(ecp_normalize_jac(grp, call.R).pt,
                       RefAdd(grp, call.Pa, call.Qa))

\* P in Jacobian coordinates with Z = 2 is added to the same point in
\* affine coordinates, and the result is the double.
C19_Witness ==
    /\ call.op = "add_mixed" /\ call.ret = 0
    /\ call.P.Z = 2 /\ call.Q.Z = 1 /\ call.Pa = call.Qa
    /\ call.case = "dbl"
    /\ call.R.Z # 0

\* C20: ecp_add_mixed() called with a Q whose Z is set and is neither 0
\* nor 1 returns -EINVAL and leaves R as it was, for every P, the zero
\* point included.
C20_Invalid ==
    (call.op = "add_mixed" /\ ~ttls_mpi_empty(call.Q.Z)
     /\ call.Q.Z \notin {0, 1})
    => call.ret = -EINVAL /\ call.R = call.R0

\* C21: in the main loop of ecp_mul_comb_core(), for every base point of
\* order N and every scalar 0 < m < N, each of the d additions is a proper
\* addition: none takes a special case of ecp_add_mixed() (accumulator
\* zero, table point zero, accumulator equal to the table point or to its
\* negative).
C21_NoSpecial ==
    (call.op = "mul" /\ Weierstrass /\ call.m > 0 /\ call.m < grp.N
     /\ call.ret = 0)
    => \A i \in DOMAIN call.cases : call.cases[i] = "add"

\* C22: ecp_select_comb(R, T, t_len, c) reads every entry T[0 .. t_len - 1]
\* whatever c is and leaves R.X = T[idx].X, R.Y = T[idx].Y with
\* idx = (c & 0x7F) >> 1, except that R.Y is p - T[idx].Y exactly when
\* bit 7 of c is set and T[idx].Y # 0; R.Z is left unchanged.
C22_Select ==
    call.op = "select_comb" =>
        LET idx == BitAnd(call.c, 127) \div 2
            neg == BitAnd(call.c, 128) = 128 /\ mpi_v(call.T[idx].Y) # 0
        IN  /\ call.rd = [j \in 1..call.t_len |-> j - 1]
            /\ call.R.X = call.T[idx].X
            /\ call.R.Y = IF neg THEN grp.P - mpi_v(call.T[idx].Y)
                                 ELSE call.T[idx].Y
            /\ call.R.Z = call.R0.Z

\* A digit with the sign bit selects the last entry of the half table and
\* the result holds the negated Y on top of the caller's Z.
C22_Witness ==
    /\ call.op = "select_comb"
    /\ call.t_len = 8 /\ call.c = 128 + 15
    /\ call.R0 = Pt(7, 7, 7)
    /\ call.R.X = call.T[7].X
    /\ call.R.Y = grp.P - call.T[7].Y
    /\ call.R.Y # call.T[7].Y
    /\ Len(call.rd) = 8

\* C23: after ecp_precompute_comb(T, P, w, d) for an affine P of order N,
\* every entry T[i], 0 <= i < 2^(w-1), is the point
\* (1 + sum over j in 1 .. w-1 of i_j * 2^(d*j)) * P, where i_j is bit
\* j - 1 of i, and every entry is affine (Z = 1, or unset meaning 1) with
\* Y non-zero.
C23_Table ==
    call.op = "precompute_comb" =>
        LET RECURSIVE factor(_, _)
            factor(i, j) ==
                IF j >= call.w THEN 1
                ELSE (factor(i, j + 1)
                      + ((i \div Pow2(j - 1)) % 2) * Pow2(call.d * j))
            want(i) == RefMul(grp, (factor(i, 1) * call.k) % grp.N, grp.G)
        IN  /\ call.ret = 0
            /\ DOMAIN call.T = 0..(Pow2(call.w - 1) - 1)
            /\ \A i \in DOMAIN call.T :
                /\ call.T[i].X = want(i).X
                /\ call.T[i].Y = want(i).Y
                /\ call.T[i].Y # 0
                /\ call.T[i].Z \in {1, EMPTY}

\* The 16-entry table of 3 * G: its last entry is (1 + 2^d + 2^2d + 2^3d
\* + 2^4d) * 3 * G, stored without a Z.
C23_Witness ==
    /\ call.op = "precompute_comb"
    /\ call.k = 3 /\ call.w = 5 /\ call.ret = 0
    /\ call.T[0] = call.P
    /\ call.T[15].Z = EMPTY
    /\ call.T[15].X = RefMul(grp, (341 * 3) % grp.N, grp.G).X
    /\ call.T[15] # call.T[0]

\* C24: ecp_randomize_jac() and ecp_randomize_mxz() return
\* TTLS_ERR_ECP_RANDOM_FAILED if and only if the first 10 draws of l are
\* all invalid (l <= 1 after the reduction below p); if one of the first 10
\* draws is valid they succeed, and they never make more than 10 draws.
C24_TenDraws ==
    call.op = "randomize" =>
        LET invalid(i) == rnd_reduce(grp, call.rng[i]) <= 1
        IN  /\ (call.ret = TTLS_ERR_ECP_RANDOM_FAILED)
                    <=> (\A i \in 1..10 : invalid(i))
            /\ (\E i \in 1..10 : ~invalid(i)) => call.ret = 0
            /\ call.draws <= 10

\* C25: coordinate randomisation does not change the result of
\* ttls_ecp_mul(): for every group, point P, scalar 1 <= m < N and every
\* l with 1 < l < p that the randomisation draws, the call with rnd = true
\* returns the same normalised point as the call with rnd = false.
C25_Blinding ==
    call.op = "mul_blind" =>
        /\ call.rets[1] = call.rets[2]
        /\ call.Rrnd = call.R

\* A randomised multiplication by 2 with l = p - 2 that gives 2 * P.
C25_Witness ==
    /\ call.op = "mul_blind" /\ Weierstrass
    /\ call.l = grp.P - 2 /\ call.m = 2
    /\ call.rets = <<0, 0>>
    /\ call.Rrnd = RefAdd(grp, call.P, call.P)
    /\ call.Rrnd = call.R

\* ------------------------------------------------------------------------
\* The Montgomery ladder, one loop iteration at a time
\* ------------------------------------------------------------------------

\* ecp_mul_mxz(grp, R, m, P, rnd) up to its loop: P is copied to RP, R is
\* set to zero in x/z coordinates, RP is randomised when rnd is set, and i
\* is one past the most significant bit of m.
LadderStart ==
    /\ call.op = "none"
    /\ ~Weierstrass
    /\ \E m \in 1..(2 * Pow2(grp.bits) - 1),
          P \in {grp.G, Pt(35, EMPTY, 1)},
          rnd \in BOOLEAN,
          rng \in {RngRun(0, 0, 2), RngRun(1, 1, grp.P - 1),
                   RngRun(12, 1, 5)} :
        /\ rnd \/ rng = RngRun(0, 0, 2)
        /\ LET RP0 == [P EXCEPT !.X = MOD_ADD(grp, mpi_v(P.X))]
               set(rz) ==
                   IF rz.ret # 0
                   THEN [op |-> "mul_mxz", m |-> m, P |-> P, ret |-> rz.ret,
                         R |-> Pt(1, EMPTY, 0)]
                   ELSE [op |-> "ladder", m |-> m, P |-> P, PX |-> P.X,
                         R |-> Pt(1, EMPTY, 0), RP |-> rz.pt,
                         i |-> ttls_mpi_bitlen(m)]
           IN  call' = set(IF rnd THEN ecp_randomize_mxz(grp, RP0, rng)
                           ELSE [ret |-> 0, pt |-> RP0])
    /\ UNCHANGED <<grp, DEBUG, wire, tdb>>

\* One iteration of the loop: while (i-- > 0) { ... }.
LadderStep ==
    /\ call.op = "ladder"
    /\ call.i > 0
    /\ LET set(st) == [call EXCEPT !.R = st.R, !.RP = st.RP, !.i = @ - 1]
       IN  call' = set(mxz_step(grp, [R |-> call.R, RP |-> call.RP,
                                      tr |-> <<>>],
                                ttls_mpi_get_bit(call.m, call.i - 1),
                                call.PX))
    /\ UNCHANGED <<grp, DEBUG, wire, tdb>>

\* The loop is over: return ecp_normalize_mxz(grp, R).
LadderEnd ==
    /\ call.op = "ladder"
    /\ call.i = 0
    /\ LET set(nz) == [op |-> "mul_mxz", m |-> call.m, P |-> call.P,
                       ret |-> nz.ret, R |-> nz.pt]
       IN  call' = set(ecp_normalize_mxz(grp, call.R))
    /\ UNCHANGED <<grp, DEBUG, wire, tdb>>

NextLadder == LadderStart \/ LadderStep \/ LadderEnd \/ Return

SpecLadder == Init /\ [][NextLadder]_vars

\* C26: in ecp_mul_mxz(), after each loop iteration (conditional swap on
\* the bit, ecp_double_add_mxz, conditional swap back) R is n * P in x/z
\* coordinates, n being the scalar bits processed so far, and RP is
\* R + P = (n + 1) * P; after the last bit R is m * P, and the point
\* returned after ecp_normalize_mxz() has Z = 1 and X the x-coordinate of
\* m * P.  The reference is the affine group law of
\* y^2 = x^3 + a x^2 + x with grp.A = (a + 2) / 4.
C26_Ladder ==
    LET p == grp.P
        a == (4 * grp.A - 2) % p
        rhs(x) == (((x * x) % p) * x + a * ((x * x) % p) + x) % p
        lift(x) == Pt(x, CHOOSE y \in 0..(p - 1) : (y * y) % p = rhs(x), 1)
        inv(v) == egcd(v % p, p).x % p
        add(P, Q) ==
            LET lam == IF P.X = Q.X
                       THEN (((3 * P.X * P.X + 2 * a * P.X + 1) % p)
                             * inv(2 * P.Y)) % p
                       ELSE (((Q.Y - P.Y) % p) * inv(Q.X - P.X)) % p
                x   == (lam * lam - a - P.X - Q.X) % p
                y   == (lam * ((P.X - x) % p) - P.Y) % p
            IN  IF P.Z = 0 THEN Q
                ELSE IF Q.Z = 0 THEN P
                ELSE IF P.X = Q.X /\ (P.Y + Q.Y) % p = 0 THEN Pt(1, 1, 0)
                ELSE Pt(x, y, 1)
        RECURSIVE mul(_, _)
        mul(k, P) == IF k = 0 THEN Pt(1, 1, 0) ELSE add(mul(k - 1, P), P)
        \* the x/z pair pt stands for the point Q
        is(pt, Q) ==
            IF Q.Z = 0 THEN mpi_v(pt.Z) = 0 /\ mpi_v(pt.X) # 0
            ELSE /\ mpi_v(pt.Z) # 0
                 /\ mpi_v(pt.X) = (Q.X * mpi_v(pt.Z)) % p
    IN  /\ call.op = "ladder" =>
            LET n == call.m \div Pow2(call.i)
            IN  /\ is(call.R, mul(n, lift(call.PX)))
                /\ is(call.RP, mul(n + 1, lift(call.PX)))
        /\ (call.op = "mul_mxz"
             /\ call.ret # TTLS_ERR_ECP_RANDOM_FAILED
             /\ mul(call.m, lift(call.P.X)).Z # 0)
            => /\ call.ret = 0
               /\ call.R.Z = 1
               /\ call.R.X = mul(call.m, lift(call.P.X)).X

\* Two bits of m = 13 are processed on randomised coordinates: R is 3 * G
\* (x = 35) and RP is 4 * G (x = 103), both with Z other than 1.
C26_Witness ==
    /\ call.op = "ladder"
    /\ call.m = 13 /\ call.i = 2 /\ call.P = grp.G
    /\ mpi_v(call.R.Z) > 1 /\ mpi_v(call.RP.Z) > 1
    /\ call.R.X = (35 * call.R.Z) % grp.P
    /\ call.RP.X = (103 * call.RP.Z) % grp.P

\* ------------------------------------------------------------------------
\* ModArith: the fast reduction of the 256-bit group and the reduction steps
\* of the group operations
\* ------------------------------------------------------------------------

\* Bits of a word c_i of the reduction (32 in the source). A limb, and a
\* register, holds two words; the prime is
\* 2^(8 BIW) - 2^(7 BIW) + 2^(6 BIW) + 2^(3 BIW) - 1, which is 199 here and
\* the P-256 prime for 32-bit words.
BIW == 1

P256 == Pow2(8 * BIW) - Pow2(7 * BIW) + Pow2(6 * BIW) + Pow2(3 * BIW) - 1

\* Fast reduction by FIPS 186-3 D.2 of the 8 limbs at c (16 words c[0] ..
\* c[15]) of which used are in use; the result is the 4 low limbs written
\* back.  A line of ADD/ADC (SUB/SBB) instructions is one addition
\* (subtraction) of 4 limbs to RBX, RDX, R8, R9 with the carry (borrow)
\* going to RCX, which never leaves the range of a register.
ecp_mod_p256_x86_64(c, used) ==
    LET R == Pow2(2 * BIW)
        movq(i) == c[i] + c[i + 1] * Pow2(BIW)
        movl(i) == c[i]
        shlq(x) == (x * Pow2(BIW)) % R
        shrq(x) == x \div Pow2(BIW)
        shldq(x, y) == shlq(x) + shrq(y)
        add(a, n) ==
            LET t0 == a.l[1] + n[1]
                t1 == a.l[2] + n[2] + t0 \div R
                t2 == a.l[3] + n[3] + t1 \div R
                t3 == a.l[4] + n[4] + t2 \div R
            IN  [l |-> <<t0 % R, t1 % R, t2 % R, t3 % R>>,
                 rcx |-> a.rcx + t3 \div R]
        sub(a, n) ==
            LET bw(t) == IF t < 0 THEN 1 ELSE 0
                t0 == a.l[1] - n[1]
                t1 == a.l[2] - n[2] - bw(t0)
                t2 == a.l[3] - n[3] - bw(t1)
                t3 == a.l[4] - n[4] - bw(t2)
            IN  [l |-> <<t0 % R, t1 % R, t2 % R, t3 % R>>,
                 rcx |-> a.rcx - bw(t3)]
        \* Load the base line.
        base == [l |-> <<movq(0), movq(2), movq(4), movq(6)>>, rcx |-> 0]
        \* Load and add the s2 line.
        r11a == shlq(movq(11))
        r12a == movq(12)
        r10  == movq(14)
        s2   == <<0, r11a, r12a, r10>>
        \* The s3 line, no need to carry on shift.
        rax3 == movl(15)
        r13a == shlq(movq(12))
        rsi3 == movq(13)
        s3   == <<0, r13a, rsi3, rax3>>
        \* Load and add s4.
        r14  == movq(8)
        rax4 == movl(10)
        s4   == <<r14, rax4, 0, r10>>
        \* Load and add s5.
        rsi5 == shlq(rsi3)
        r15  == movq(9)
        r11b == BitOr(shrq(r11a), rsi5)
        rsi6 == shrq(rsi5)
        rax5 == BitOr(shlq(movl(8)), rsi6)
        s5   == <<r15, r11b, r10, rax5>>
        \* Load and subtract s6.
        r11c == movq(11)
        r13b == BitOr(shlq(movq(10)), shrq(rax5))
        s6   == <<r11c, rsi6, 0, r13b>>
        \* Load and subtract s7.
        r11d == BitOr(shlq(r11c), movl(9))
        s7   == <<r12a, r10, 0, r11d>>
        \* Load and subtract s8.
        r11e == movq(13)
        r13c == shldq(r13b, r10)
        r12b == shlq(r12a)
        s8   == <<r11e, r13c, r15, r12b>>
        \* Load and subtract s9.
        s9   == <<r10, shlq(r15), movq(10), shlq(r11e)>>
        quasi ==
            sub(sub(sub(sub(add(add(add(add(add(add(base, s2), s2), s3), s3),
                                    s4), s5), s6), s7), s8), s9)
        \* P256, least significant limb first
        P == <<R - 1, Pow2(BIW) - 1, 0, (Pow2(BIW) - 1) * Pow2(BIW) + 1>>
        RECURSIVE sub_loop(_)
        sub_loop(a) ==
            LET n == sub(a, P)
            IN  IF n.rcx >= 0 THEN sub_loop(n) ELSE add(n, P).l
        RECURSIVE add_loop(_)
        add_loop(a) ==
            LET n == add(a, P)
            IN  IF n.rcx # 0 THEN add_loop(n) ELSE n.l
    IN  \* It's faster for small MPIs just to subtract P.
        IF used <= 4 THEN sub_loop(base)
        ELSE IF quasi.rcx < 0 THEN add_loop(quasi)
        ELSE sub_loop(quasi)

\* Wrapper around fast quasi-mod for SECP 256: N is laid out in 8 limbs,
\* reduced in place, and used is fixed up to at most 4 limbs.
ecp_mod_p256(N) ==
    LET c == [i \in 0..15 |-> (N \div Pow2(BIW * i)) % Pow2(BIW)]
        used == CHOOSE u \in 0..8 :
                    /\ N < Pow2(2 * BIW * u)
                    /\ u > 0 => N >= Pow2(2 * BIW * (u - 1))
        val(l) == l[1] + Pow2(2 * BIW) * l[2] + Pow2(4 * BIW) * l[3]
                  + Pow2(6 * BIW) * l[4]
    IN  val(ecp_mod_p256_x86_64(c, used))

\* ecp_mul_mod() and ecp_sqr_mod() of the 256-bit group on operands in
\* [0, p): the product of 4 by 4 limbs, then ecp_mod_p256().
ModP256 ==
    /\ call.op = "none"
    /\ \E A \in 0..(P256 - 1), B \in 0..(P256 - 1) :
        call' = [op |-> "mod_p256", A |-> A, B |-> B,
                 X |-> ecp_mod_p256(A * B)]
    /\ UNCHANGED <<grp, DEBUG, wire, tdb>>

\* The group operations on operands in [0, p), with the values their
\* reduction steps leave: ecp_double_jac(), ecp_add_mixed(),
\* ecp_normalize_jac() and ecp_randomize_jac() on a short Weierstrass
\* group, one ladder iteration on a Montgomery group.
GroupOps ==
    /\ call.op = "none"
    /\ \E P \in IF Weierstrass THEN {J.pt : J \in JacPoints(grp)}
                 ELSE {Pt(x, EMPTY, z) : x \in {0, 1, 18, 35, grp.P - 1},
                                        z \in {0, 1, 3, grp.P - 1}},
          Q \in IF Weierstrass THEN {J.pt : J \in MixedPoints(grp)}
                 ELSE {Pt(x, EMPTY, z) : x \in {1, 18, 107, grp.P - 1},
                                        z \in {0, 1, 5, grp.P - 1}},
          l \in {2, 7, grp.P - 1} :
        LET nz == ecp_normalize_jac(grp, P)
            rz == ecp_randomize_jac(grp, P, RngRun(0, 0, l))
            jac(db, ad) ==
                [op |-> "group_ops", P |-> P, Q |-> Q,
                 vals |-> db.vals \o ad.vals
                          \o <<db.R.X, db.R.Y, db.R.Z>>
                          \o <<mpi_v(ad.R.X), mpi_v(ad.R.Y), mpi_v(ad.R.Z)>>
                          \o <<nz.pt.X, nz.pt.Y, nz.pt.Z>>
                          \o <<rz.pt.X, rz.pt.Y, rz.pt.Z>>]
            mxz(st) ==
                [op |-> "group_ops", P |-> P, Q |-> Q,
                 vals |-> st.vals \o <<st.R.X, st.R.Z, st.S.X, st.S.Z>>]
        IN  call' = IF Weierstrass
                    THEN jac(ecp_double_jac(grp, P),
                             ecp_add_mixed(grp, ttls_ecp_point_init, P, Q))
                    ELSE mxz(ecp_double_add_mxz(grp, P, Q, P, Q, grp.G.X))
    /\ UNCHANGED <<grp, DEBUG, wire, tdb>>

\* Add X = A + B, where A->used >= B->used.  A and B are the limbs of the
\* operands, least significant first, a limb holding two words; X0 is the
\* memory at X before the call, limb by limb.  The result is RAX and the
\* memory at X after the call.
mpi_add_x86_64(X0, limbs, B, B_used, A, A_used) ==
    LET R == Pow2(2 * BIW)
        \* movq (%r8, %rax, 8), %r10 ; adcq src, %r10 ;
        \* movq %r10, (%rdi, %rax, 8) ; incq %rax
        adc(st, a, b) ==
            [rax |-> st.rax + 1, cf |-> (a + b + st.cf) \div R,
             X |-> [st.X EXCEPT ![st.rax] = (a + b + st.cf) % R]]
        \* Add loop over the smaller MPI.
        RECURSIVE add_smaller(_, _)
        add_smaller(st, rcx) ==
            LET n == adc(st, A[st.rax], B[st.rax])
            IN  IF rcx - 1 # 0 THEN add_smaller(n, rcx - 1) ELSE n
        \* Add loop over the bigger MPI.
        RECURSIVE add_bigger(_, _)
        add_bigger(st, rcx) ==
            IF rcx - 1 # 0
            THEN add_bigger(adc(st, 0, A[st.rax]), rcx - 1)
            ELSE st
        \* Propagate carry to a new X limb if necessary.
        carry(st) ==
            IF st.cf = 0 THEN [rax |-> st.rax, X |-> st.X]
            ELSE IF limbs < st.rax THEN [rax |-> -1, X |-> st.X]
            ELSE [rax |-> st.rax + 1, X |-> [st.X EXCEPT ![st.rax] = 1]]
    IN  carry(add_bigger(add_smaller([rax |-> 0, cf |-> 0, X |-> X0],
                                     B_used),
                         A_used - B_used + 1))

\* The limbs an MPI of the given size can hold.
MaxLimbs == 2

\* mpi_add_x86_64() on operands in use (1 <= B->used <= A->used) and a
\* result that has room for the bigger operand (A->used <= X->limbs).  The
\* memory at X is followed by one more limb, which is not X's; no limb of
\* it has been written (-1) before the call.
MpiAdd ==
    /\ call.op = "none"
    /\ \E limbs \in 1..MaxLimbs :
        \E A_used \in 1..limbs :
          \E B_used \in 1..A_used :
            \E A \in [0..(A_used - 1) -> 0..(Pow2(2 * BIW) - 1)],
               B \in [0..(B_used - 1) -> 0..(Pow2(2 * BIW) - 1)] :
                LET set(r) == [op |-> "mpi_add", limbs |-> limbs, A |-> A,
                               B |-> B, ret |-> r.rax, X |-> r.X]
                IN  call' = set(mpi_add_x86_64([i \in 0..limbs |-> -1],
                                               limbs, B, B_used, A, A_used))
    /\ UNCHANGED <<grp, DEBUG, wire, tdb>>

NextField == ModP256 \/ GroupOps \/ MpiAdd \/ Return

SpecField == Init /\ [][NextField]_vars

\* C27: every coordinate written by a group operation is fully reduced:
\* after ecp_mul_mod(), ecp_sqr_mod() and after each MOD_ADD, MOD_SUB and
\* ecp_modp() step inside the doubling, the mixed addition, the
\* normalisation, the randomisation and the ladder step, the value is an
\* integer in [0, p), congruent mod p to the unreduced result, given
\* operands in [0, p).
C27_Reduced ==
    /\ call.op = "mod_p256" =>
        /\ call.X >= 0 /\ call.X < P256
        /\ call.X = (call.A * call.B) % P256
    /\ call.op = "group_ops" =>
        \A i \in DOMAIN call.vals :
            call.vals[i] >= 0 /\ call.vals[i] < grp.P

\* A doubling and a proper addition on a Jacobian point with Z other than
\* 1: all their reduction steps ran, and one of them left p - 1.
C27_Witness ==
    /\ call.op = "group_ops" /\ Weierstrass
    /\ call.P.Z > 1
    /\ Len(call.vals) = 15 + 13 + 12
    /\ \E i \in DOMAIN call.vals : call.vals[i] = grp.P - 1
    /\ \A i \in DOMAIN call.vals : call.vals[i] < grp.P

\* C28: mpi_add_x86_64(X, limbs, B, B_used, A, A_used) with
\* A_used >= B_used never writes a limb of X at an index >= limbs: when
\* the final carry needs a limb that does not fit in X's limbs it returns
\* -1 without writing that limb, and otherwise it returns the number of
\* limbs written and X holds A + B.
C28_InBounds ==
    call.op = "mpi_add" =>
        LET RECURSIVE val(_, _)
            val(f, n) == IF n = 0 THEN 0
                         ELSE val(f, n - 1) + f[n - 1] * Pow2(2 * BIW * (n - 1))
            num(f) == val(f, Cardinality(DOMAIN f))
            sum == num(call.A) + num(call.B)
            fits == sum < Pow2(2 * BIW * call.limbs)
            written == {i \in DOMAIN call.X : call.X[i] # -1}
        IN  /\ \A i \in written : i < call.limbs
            /\ ~fits => call.ret = -1
            /\ fits => /\ call.ret = Cardinality(written)
                       /\ num([i \in 0..(call.ret - 1) |-> call.X[i]]) = sum

\* ------------------------------------------------------------------------
\* Tempesta DB: tdb_open() and tdb_close() in the caller's thread, the
\* queued tdb_open_db() in the thread of the single-threaded work queue
\*
\* tdb.dbs are the descriptors tdb_open() has allocated, in order, each
\* live with its name or freed (its bytes are then anyone's); tdb.wq is
\* the work queue (descriptor numbers); tdb.work is the next step of the
\* work at its head; tdb.closing is the descriptor tdb_close() is in the
\* middle of closing, 0 for none; tdb.freed_access records that
\* tdb_open_db() has touched a freed descriptor.

\* Descriptors one run opens.
MaxTdbOpens == 6

\* tdb_open(path, fsize, rec_size) with a well-formed path and no
\* allocation failure: the descriptor is allocated, named and returned, its
\* opening is queued.
tdb_open ==
    /\ tdb.closing = 0
    /\ Len(tdb.dbs) < MaxTdbOpens
    /\ \E tbl_name \in TblNames :
        tdb' = [tdb EXCEPT
                 !.dbs = Append(@, [st |-> "live", tbl_name |-> tbl_name]),
                 !.wq = Append(@, Len(tdb.dbs) + 1)]
    /\ UNCHANGED <<grp, DEBUG, call, wire>>

\* tdb_open_db(work) in two steps: tdb_file_open() and tdb_htrie_init()
\* write the descriptor; then the work is freed and tdb_tbl_enumerate()
\* reads db->tbl_name under tbl_mtx.  The name read from a freed descriptor
\* is any name.
tdb_open_db ==
    /\ tdb.wq # <<>>
    /\ LET db == Head(tdb.wq)
           freed == tdb.dbs[db].st = "freed"
       IN  \/ /\ tdb.work = "tdb_file_open"
              /\ tdb' = [tdb EXCEPT !.work = "tdb_tbl_enumerate",
                                    !.freed_access = @ \/ freed]
           \/ /\ tdb.work = "tdb_tbl_enumerate"
              /\ \E tbl_name \in IF freed THEN TblNames
                                  ELSE {tdb.dbs[db].tbl_name} :
                    tdb' = [tdb_tbl_enumerate(tdb, tbl_name) EXCEPT
                             !.wq = Tail(@), !.work = "tdb_file_open",
                             !.freed_access = @ \/ freed]
    /\ UNCHANGED <<grp, DEBUG, call, wire>>

\* tdb_close(db) on a descriptor tdb_open() returned, in two steps:
\* tdb_tbl_forget() under tbl_mtx; then tdb_file_close(), tdb_htrie_exit()
\* and kfree(db).
tdb_close ==
    /\ \/ /\ tdb.closing = 0
          /\ \E db \in {d \in DOMAIN tdb.dbs : tdb.dbs[d].st = "live"},
                oob \in [0..(TDB_TBLNAME_LEN - 2) -> 0..TblChars] :
                tdb' = [tdb_tbl_forget(tdb, tdb.dbs[db].tbl_name, oob)
                            EXCEPT !.closing = db]
       \/ /\ tdb.closing # 0
          /\ tdb' = [tdb EXCEPT !.dbs[tdb.closing] = [st |-> "freed"],
                                !.closing = 0]
    /\ UNCHANGED <<grp, DEBUG, call, wire>>

NextTdb == tdb_open \/ tdb_open_db \/ tdb_close

\* Tempesta DB runs whatever the TLS side does: one group, no DEBUG.
InitTdb == Init /\ grp.id = TTLS_ECP_DP_SECP256R1 /\ ~DEBUG

SpecTdb == InitTdb /\ [][NextTdb]_vars

\* C29: after any sequence of tdb_tbl_enumerate() and tdb_tbl_forget()
\* calls, 0 <= tbl_last <= TDB_MAXTBL and the rows tdb_tbls[0 .. tbl_last)
\* hold, as C strings, exactly the names enumerated and not yet forgotten,
\* each intact and in enumeration order; forgetting one table removes only
\* that table's name.
C29_Rows ==
    /\ tdb.tbl_last >= 0 /\ tdb.tbl_last <= TDB_MAXTBL
    /\ Len(tdb.listed) = tdb.tbl_last
    /\ \A r \in 0..(tdb.tbl_last - 1) :
        LET row(k) == tdb.tdb_tbls[r * (TDB_TBLNAME_LEN + 1) + k]
        IN  \A k \in 0..TDB_TBLNAME_LEN :
                tdb.listed[r + 1][k] =
                    IF \E j \in 0..k : row(j) = 0 THEN 0 ELSE row(k)

\* C30: in every interleaving of a caller thread running tdb_open() then
\* tdb_close() with the work-queue thread running the queued tdb_open_db(),
\* tdb_open_db() never reads or writes a descriptor that tdb_close() has
\* already freed, and no name is left in the open-table list after its
\* descriptor was closed: every row names a descriptor not yet freed.
C30_NoRace ==
    /\ ~tdb.freed_access
    /\ \A r \in 0..(tdb.tbl_last - 1) :
        \E db \in DOMAIN tdb.dbs :
            /\ tdb.dbs[db].st = "live"
            /\ \A k \in 0..(TDB_TBLNAME_LEN - 1) :
                tdb.dbs[db].tbl_name[k] =
                    tdb.tdb_tbls[r * (TDB_TBLNAME_LEN + 1) + k]

====
